---- MODULE Spec2Model ----
(***************************************************************************)
(* A model of the session logic of "The Heretical Game": the GameEngine    *)
(* (game-engine.js), the QuestionManager, the CouncilManager, the question *)
(* timer of the timed-trials feature, the loading of questions and         *)
(* councils during GameEngine.init, and processQuestions / shuffleArray.   *)
(***************************************************************************)
EXTENDS Integers, Sequences, FiniteSets, TLC

(***************************************************************************)
(* Bounds of the model.                                                    *)
(***************************************************************************)
\* number of QuestionManager.processAnswer calls explored in one behaviour
MaxAnswers == 4

\* longest list passed to shuffleArray and processQuestions on their own
MaxLen == 3

\* number of questions of the timed trial
TimedQuestions == 4

\* timeLimit, in seconds, of the timed questions of the trial
TimeLimit == 3

(***************************************************************************)
(* Program constants.                                                      *)
(***************************************************************************)
\* GameEngine.handleCouncilOffended / checkGameContinuation: offended cap
OffendedCap == 5

\* CouncilManager.loadBuiltInCouncils: the built-in councils, in load order
CouncilIds ==
  << "catholic-church", "protestant-reformation", "scientific-community",
     "political-authority", "academic-institution", "religious-order",
     "philosophical-school" >>

Councils == { CouncilIds[i] : i \in 1..Len(CouncilIds) }

\* CouncilManager.loadBuiltInCouncils: tolerance of each built-in council
Tolerance ==
  [ c \in Councils |->
      CASE c = "catholic-church"        -> 2
        [] c = "protestant-reformation" -> 3
        [] c = "scientific-community"   -> 1
        [] c = "political-authority"    -> 2
        [] c = "academic-institution"   -> 3
        [] c = "religious-order"        -> 4
        [] c = "philosophical-school"   -> 5 ]

\* The answers a caller passes to processAnswer: the booleans of
\* DOMManager.handleAnswerClick (as "true"/"false"), the string 'agree'
\* and the option values of DOMManager.handleOptionClick.
Answers == { "true", "false", "agree", "optA", "optB" }

\* One reaction entry of question.councils: council id and reaction map.
Entry(c, m) == [ council |-> c, map |-> m ]

\* The reaction map of a binary question; the entry of the last council
\* has no 'disagree' key (reactionMap.disagree || 0).
BinaryEntries ==
  [ i \in 1..Len(CouncilIds) |->
      IF i < Len(CouncilIds)
        THEN Entry(CouncilIds[i], [ agree |-> -1, disagree |-> 1 ])
        ELSE Entry(CouncilIds[i], [ agree |-> -1 ]) ]

\* The question pool in the external (modular) data format read by
\* QuestionManager.loadFromExternalSource: id, type, options and a
\* councils map from council id to reaction map (kept as a sequence, the
\* insertion order that Object.entries follows).  q2 names no council; q3
\* names a council that is not loaded.
QuestionData ==
  [ q1 |-> [ type |-> "binary", options |-> {"Yes", "No"},
             councils |-> BinaryEntries ],
    q2 |-> [ type |-> "binary", options |-> {"Yes", "No"},
             councils |-> << >> ],
    q3 |-> [ type |-> "multiple", options |-> {"optA", "optB"},
             councils |-> << Entry("scientific-community",
                                   [ optA |-> -2, optB |-> 2 ]),
                             Entry("unknown-council", [ optA |-> -1 ]),
                             Entry("political-authority",
                                   [ optA |-> 1 ]) >> ] ]

QuestionIds == DOMAIN QuestionData

\* QuestionManager.processQuestions shuffles the pool: any order of the ids
PoolOrders ==
  { s \in [ 1..Cardinality(QuestionIds) -> QuestionIds ] :
      \A i, j \in DOMAIN s : i # j => s[i] # s[j] }

VARIABLES
  questions,             \* QuestionManager.questions (ids, pool order)
  currentQuestionIndex,  \* QuestionManager.currentQuestionIndex (0-based)
  answeredQuestions,     \* QuestionManager.answeredQuestions
  offendedCount,         \* council.offendedCount of every loaded council
  offendedCouncils,      \* CouncilManager.offendedCouncils
  phase,                 \* StateManager state.phase
  stateVerdict,          \* StateManager state.verdict ("null" or a verdict)
  questionsAnswered,     \* StateManager state.questionsAnswered
  isGameActive,          \* GameEngine.isGameActive
  currentPhase,          \* GameEngine.currentPhase
  displayedQuestion,     \* question shown by DOMManager ("none" if none)
  errorShown,            \* the last handler ended in DOMManager.showError
  lastReturned,          \* result of the last getNextQuestion ("none"/"null")
  lastNewlyOffended,     \* result of the last CouncilManager.processAnswer
  lastReactions,         \* reactions{} of the last CouncilManager.processAnswer
  notified,              \* 'councilOffended' events per council since reset
  everReached,           \* councils whose count reached tolerance since reset
  verdictCalls,          \* calculateVerdict calls since the last startGame
  sessionAnswered,       \* ids passed to processAnswer since the last startGame
  answersGiven,          \* processAnswer calls so far
  currentQuestion,       \* timed trial: index of the question on display
  timeLeft,              \* timed trial: timeLeft of startQuestionTimer
  questionTimer,         \* timed trial: a setTimeout(updateTimer) is pending
  advancePending,        \* timed trial: pending 3 s "next question" timeouts
  answerLocked,          \* timed trial: the answer buttons are disabled
  scoreCount,            \* timed trial: times each question was scored
  difficulty,            \* StateManager state.difficulty
  isInitialized,         \* GameEngine.isInitialized ('initialized' was emitted)
  enginePc,              \* GameEngine: "new", "awaiting" (Promise.all), "initialized"
  qmIsLoading,           \* QuestionManager.isLoading
  qmLoad,                \* loadQuestions in progress: "idle", "fetch", "json"
  qmPromise,             \* promise of the last loadQuestions call that loads
  loadError,             \* QuestionManager.loadError is set
  questionsLoaded,       \* origin of QuestionManager.questions
  cmIsLoading,           \* CouncilManager.isLoading
  cmLoad,                \* loadCouncils in progress: "idle", "fetch", "json"
  councilsLoaded,        \* origin of the content of CouncilManager.councils
  awaitedCouncils,       \* the engine's own loadCouncils call is pending
  inputList,             \* argument of the function under test
  calledFunction,        \* the function that was applied to inputList
  returned               \* the list it returned (the array after the shuffle)

engineVars ==
  << questions, currentQuestionIndex, answeredQuestions, offendedCount,
     offendedCouncils, phase, stateVerdict, questionsAnswered, isGameActive,
     currentPhase, displayedQuestion, errorShown, lastReturned,
     lastNewlyOffended, lastReactions, notified, everReached, verdictCalls,
     sessionAnswered, answersGiven, difficulty >>

timerVars ==
  << currentQuestion, timeLeft, questionTimer, advancePending, answerLocked,
     scoreCount >>

loadVars ==
  << isInitialized, enginePc, qmIsLoading, qmLoad, qmPromise, loadError,
     questionsLoaded, cmIsLoading, cmLoad, councilsLoaded, awaitedCouncils >>

pureVars == << inputList, calledFunction, returned >>

coreVars == << engineVars, timerVars, loadVars, pureVars >>

VARIABLES
  usedQuestions,         \* localStorage 'usedQuestions': keys <<difficulty, id>>
  shuffledQueue,         \* the queue built by the last beginSession
  sessionDifficulty,     \* difficulty of the running session ("none" before)
  poolWasReset,          \* wasReset of the last beginSession
  lastOffered            \* id returned by the last next() (0: none)

usedVars ==
  << usedQuestions, shuffledQueue, sessionDifficulty, poolWasReset,
     lastOffered >>

VARIABLES
  verdictScore,  \* score passed to determineVerdictType, in tenths
  verdictType    \* its result ("none" before the call)

verdictVars ==
  << verdictScore, verdictType >>

VARIABLES
  smPc,               \* StateManager: "none", "loading", "ready", "destroyed"
  smState,            \* StateManager.state
  hasUnsavedChanges,  \* StateManager.hasUnsavedChanges
  smLoaded,           \* result of the load() that init awaits
  smInstances,        \* StateManager instances constructed so far
  smCalls,            \* calls of set, reset, save and clear so far
  localStorage,       \* the capability and the item under config.storageKey
  smConfig,           \* config.enableCompression, config.encryptionKey (set?)
  smSnapshot,         \* state (and calls so far) at the last destroy
  smCleared,          \* clear() was called after the last change of the state
  smThrew             \* the last call threw: "none", "set", "save"

smVars ==
  << smPc, smState, hasUnsavedChanges, smLoaded, smInstances, smCalls,
     localStorage, smConfig, smSnapshot, smCleared, smThrew >>

\* JavaScript values held by the state: a property is absent, or holds
\* undefined, null, a string, or an object with the properties SubKeys.
\* The string "wide" stands for a string with a character above U+00FF
\* (the verdict icons of the game), "a" and "start" for Latin-1 strings.
TopKeys == { "phase", "currentQuestion", "test" }

SubKeys == { "id" }

JsValue(t, v, f) == [ t |-> t, v |-> v, f |-> f ]

NoFields == [ k \in SubKeys |-> "absent" ]

Absent == JsValue("absent", "", NoFields)

Undefined == JsValue("undefined", "", NoFields)

Null == JsValue("null", "", NoFields)

Str(v) == JsValue("string", v, NoFields)

\* StateManager.createInitialState: 'test' is not a property of it
createInitialState ==
  [ k \in TopKeys |->
      CASE k = "phase" -> Str("start")
        [] k = "currentQuestion" -> Null
        [] k = "test" -> Absent ]

\* what load() returns when it returns null, and localStorage without item
NoItem ==
  [ has |-> FALSE, compressed |-> FALSE, encrypted |-> FALSE,
    state |-> createInitialState ]

VARIABLES
  events,         \* EventEmitter.events.get(e): the callbacks registered for e
  unsubscribers,  \* callback captured by the unsubscribe function of each on() call
  lastInvoked     \* registrations invoked by the last emit(e), in order

emitterVars ==
  << events, unsubscribers, lastInvoked >>

VARIABLES
  errors,           \* ErrorHandler.errors: the reports recorded, by number
  errorEvents,      \* reports for which an 'error' event was emitted
  isHandlingError,  \* ErrorHandler.isHandlingError
  reports,          \* calls of handleError from outside the handler so far
  errorConfig       \* config of the handler and behaviour of its callbacks

errorVars ==
  << errors, errorEvents, isHandlingError, reports, errorConfig >>

VARIABLES
  retryPc,       \* retryOperation: "idle", "attempt", "waiting", "returned", "thrown"
  attempt,       \* the loop variable attempt
  waited,        \* delays of the setTimeout waits so far, in order
  retryResult,   \* attempt whose result or error came out (-1: none)
  retryOptions   \* options of the call: maxRetries, maxDelay, shouldRetry

retryVars ==
  << retryPc, attempt, waited, retryResult, retryOptions >>

VARIABLES
  sanitizeInput,    \* str passed to sanitizeHTML, as a sequence of pieces
  sanitizeOutput,   \* the string it returned
  documentDefined,  \* typeof document !== 'undefined'
  sanitizeCalled    \* sanitizeHTML has been applied

sanitizeVars ==
  << sanitizeInput, sanitizeOutput, documentDefined, sanitizeCalled >>

VARIABLES
  councils,          \* CouncilManager.councils: id -> tolerance, offendedCount, lastReaction
  offendedSet,       \* CouncilManager.offendedCouncils of the manager on its own
  reactionSeverity,  \* severity of the latest reaction in councilReactions, per council
  councilScore,      \* result of the last calculateCouncilScore(getOffendedCouncils())
  ledgerCalls        \* calls made on the manager so far

ledgerVars ==
  << councils, offendedSet, reactionSeverity, councilScore, ledgerCalls >>

VARIABLES
  moduleCache,      \* ModuleLoader.moduleCache (the paths it holds)
  loadingPromises,  \* ModuleLoader.loadingPromises: path -> pending load (0 if none)
  loads,            \* the doLoadModule invocations in flight
  lastSettled,      \* the doLoadModule invocation that settled last
  preloadQueue,     \* ModuleLoader.preloadQueue
  isPreloading,     \* ModuleLoader.isPreloading
  preloadLoops,     \* the processPreloadQueue invocations past their guard, still running
  loadCallsMade,    \* loadModule calls made by clients so far
  preloadCalls,     \* preloadModule calls made by clients so far
  loaderConfig      \* ModuleLoader.config

loaderVars ==
  << moduleCache, loadingPromises, loads, lastSettled, preloadQueue,
     isPreloading, preloadLoops, loadCallsMade, preloadCalls, loaderConfig >>

VARIABLES
  histPc,      \* StateManager (its history): "none", "loading", "ready"
  history,     \* length of StateManager.history
  histLoaded,  \* history of the load() result that init awaits
  histStored,  \* history of the item under config.storageKey
  histConfig   \* config.maxHistory, config.enableCompression

historyVars ==
  << histPc, history, histLoaded, histStored, histConfig >>

extVars == << usedVars, verdictVars, smVars, emitterVars, errorVars, retryVars, sanitizeVars, ledgerVars, loaderVars, historyVars >>

\* the parts of the program outside the engine before any of them has run,
\* but for the part `running`, whose specification gives its own first state
ExtIdleExcept(running) ==
  \* no session of the question pool has been started, nothing is persisted
  /\ IF running = "used" THEN TRUE ELSE
       /\ usedQuestions = {}
       /\ shuffledQueue = << >>
       /\ sessionDifficulty = "none"
       /\ poolWasReset = FALSE
       /\ lastOffered = 0
  \* no verdict has been determined
  /\ IF running = "verdict" THEN TRUE ELSE
       /\ verdictScore = 0
       /\ verdictType = "none"
  \* no StateManager has been constructed
  /\ IF running = "state" THEN TRUE ELSE
       /\ smPc = "none"
       /\ smState = createInitialState
       /\ hasUnsavedChanges = FALSE
       /\ smLoaded = NoItem
       /\ smInstances = 0
       /\ smCalls = 0
       /\ localStorage = [ present |-> TRUE, item |-> NoItem ]
       /\ smConfig = [ enableCompression |-> TRUE, encryptionKey |-> FALSE ]
       /\ smSnapshot = [ taken |-> FALSE, calls |-> 0, state |-> createInitialState ]
       /\ smCleared = FALSE
       /\ smThrew = "none"
  \* an EventEmitter without listeners
  /\ IF running = "emitter" THEN TRUE ELSE
       /\ events = << >>
       /\ unsubscribers = << >>
       /\ lastInvoked = << >>
  \* an ErrorHandler to which nothing has been reported
  /\ IF running = "error" THEN TRUE ELSE
       /\ errors = << >>
       /\ errorEvents = << >>
       /\ isHandlingError = FALSE
       /\ reports = 0
       /\ errorConfig = [ consoleOverride |-> FALSE, onError |-> "none",
                          notification |-> "none", listener |-> "none" ]
  \* no retryOperation call
  /\ IF running = "retry" THEN TRUE ELSE
       /\ retryPc = "idle"
       /\ attempt = 0
       /\ waited = << >>
       /\ retryResult = -1
       /\ retryOptions = [ maxRetries |-> 3, maxDelay |-> 30000,
                           retryWhileBelow |-> -1 ]
  \* no sanitizeHTML call
  /\ IF running = "sanitize" THEN TRUE ELSE
       /\ sanitizeInput = << >>
       /\ sanitizeOutput = << >>
       /\ documentDefined = TRUE
       /\ sanitizeCalled = FALSE
  \* a CouncilManager that has loaded nothing
  /\ IF running = "ledger" THEN TRUE ELSE
       /\ councils = << >>
       /\ offendedSet = {}
       /\ reactionSeverity = << >>
       /\ councilScore = [ set |-> FALSE, threw |-> FALSE, value |-> 0 ]
       /\ ledgerCalls = 0
  \* no ModuleLoader has been constructed
  /\ IF running = "loader" THEN TRUE ELSE
       /\ moduleCache = {}
       /\ loadingPromises = << >>
       /\ loads = {}
       /\ lastSettled = [ path |-> "none", outcome |-> "none", attempt |-> 0,
                          sharers |-> 0 ]
       /\ preloadQueue = << >>
       /\ isPreloading = FALSE
       /\ preloadLoops = << >>
       /\ loadCallsMade = 0
       /\ preloadCalls = 0
       /\ loaderConfig = [ maxRetries |-> 3, enableCaching |-> TRUE,
                           enablePreloading |-> TRUE ]
  \* no StateManager keeps a history
  /\ IF running = "history" THEN TRUE ELSE
       /\ histPc = "none"
       /\ history = 0
       /\ histLoaded = [ has |-> FALSE, history |-> 0 ]
       /\ histStored = [ has |-> FALSE, history |-> 0 ]
       /\ histConfig = [ maxHistory |-> 50, enableCompression |-> TRUE ]

ExtIdle == ExtIdleExcept("none")

vars == << engineVars, timerVars, loadVars, pureVars, extVars >>

(***************************************************************************)
(* QuestionManager                                                         *)
(***************************************************************************)
\* QuestionManager.getNextQuestion, the while loop: skip answered questions
RECURSIVE SkipAnswered(_, _, _)
SkipAnswered(qs, idx, answered) ==
  IF idx < Len(qs) /\ qs[idx + 1] \in answered
    THEN SkipAnswered(qs, idx + 1, answered)
    ELSE idx

\* getNextQuestion with a slip: the returned question is popped, the index
\* moves past it
getNextQuestion_Pops(qs, idx, answered) ==
  IF Len(qs) = 0
    THEN [ index |-> idx, result |-> "null" ]
    ELSE LET i == SkipAnswered(qs, idx, answered)
         IN  [ index |-> IF i < Len(qs) THEN i + 1 ELSE i,
               result |-> IF i < Len(qs) THEN qs[i + 1] ELSE "null" ]

\* QuestionManager.getNextQuestion: the new index and the returned question
\* ("null" when the pool is empty or every question is answered); the
\* returned question is not removed and the index stays on it.
getNextQuestion(qs, idx, answered) ==
  IF Len(qs) = 0
    THEN [ index |-> idx, result |-> "null" ]
    ELSE LET i == SkipAnswered(qs, idx, answered)
         IN  [ index |-> i,
               result |-> IF i < Len(qs) THEN qs[i + 1] ELSE "null" ]

\* A question record as processQuestions reads it.  A field that is
\* missing (undefined, falsy) is "", options is "array" when
\* Array.isArray(question.options) holds, "text" for another value and ""
\* when there is none.
Question(id, text, type, options, level) ==
  [ id |-> id, text |-> text, type |-> type, options |-> options,
    difficulty |-> level ]

\* QuestionManager.processQuestions: validTypes
ValidTypes == { "binary", "multiple-choice", "multiple" }

\* the filter with a slip: the options of a binary question are not checked
IsValidQuestion_BinaryUnchecked(q) ==
  /\ ~(q.id = "" \/ q.text = "")
  /\ ~(q.type = "" \/ q.type \notin ValidTypes)
  /\ ~(q.type \in { "multiple-choice", "multiple" } /\ q.options # "array")

\* QuestionManager.processQuestions: the callback of questions.filter
IsValidQuestion(q) ==
  /\ ~(q.id = "" \/ q.text = "")
  /\ ~(q.type = "" \/ q.type \notin ValidTypes)
  /\ ~(q.type \in { "multiple-choice", "multiple" } /\ q.options # "array")
  /\ ~(q.type = "binary" /\ q.options # "array")

\* the swap indices with a slip: j is drawn below i (Sattolo's variant)
SwapIndices_BelowI(i) == 0..(i - 1)

\* QuestionManager.shuffleArray: the values of
\* Math.floor(Math.random() * (i + 1)), with Math.random() in [0, 1)
SwapIndices(i) == 0..i

\* [array[i], array[j]] = [array[j], array[i]], i and j 0-based
Swap(array, i, j) ==
  [ array EXCEPT ![i + 1] = array[j + 1], ![j + 1] = array[i + 1] ]

\* the random draws of one shuffle of n elements: draws[i] is the j drawn
\* in the iteration with loop index i
Draws(n) ==
  { draws \in [ 1..(n - 1) -> 0..(n - 1) ] :
      \A i \in 1..(n - 1) : draws[i] \in SwapIndices(i) }

\* QuestionManager.shuffleArray, the loop from index i down to 1
RECURSIVE ShuffleFrom(_, _, _)
ShuffleFrom(array, i, draws) ==
  IF i > 0
    THEN ShuffleFrom(Swap(array, i, draws[i]), i - 1, draws)
    ELSE array

\* QuestionManager.shuffleArray: for (let i = array.length - 1; i > 0; i--)
shuffleArray(array, draws) == ShuffleFrom(array, Len(array) - 1, draws)

\* QuestionManager config.maxQuestions: options.maxQuestions || null; no
\* caller sets it (0 stands for null, both are falsy)
maxQuestions == 0

\* QuestionManager.processQuestions: validQuestions
ValidQuestions(list) == SelectSeq(list, IsValidQuestion)

\* QuestionManager.processQuestions: filter, shuffle (config.shuffleQuestions
\* is true by default), limit
processQuestions(list, draws) ==
  LET shuffled == shuffleArray(ValidQuestions(list), draws)
  IN  IF maxQuestions # 0 /\ Len(shuffled) > maxQuestions
        THEN SubSeq(shuffled, 1, maxQuestions)
        ELSE shuffled

\* QuestionManager.getBuiltInQuestions with a slip: no built-in question
getBuiltInQuestions_Empty == << >>

\* QuestionManager.getBuiltInQuestions: id, text, type, options, difficulty
getBuiltInQuestions ==
  << Question("builtin_001", "text", "binary", "array", "easy"),
     Question("builtin_002", "text", "binary", "array", "medium"),
     Question("builtin_003", "text", "binary", "array", "hard"),
     Question("builtin_004", "text", "binary", "array", "medium"),
     Question("builtin_005", "text", "multiple-choice", "array", "medium") >>

\* QuestionManager.loadFromExternalSource: difficulties
Levels == << "easy", "medium", "hard", "expert" >>

\* The content of questions.json in the modular format, data.questions:
\* the questions of QuestionData, one per level, none for 'expert'; the
\* records of the file carry no difficulty of their own.
ExternalQuestions ==
  [ easy   |-> << Question("q1", "text", QuestionData["q1"].type, "array", "") >>,
    medium |-> << Question("q2", "text", QuestionData["q2"].type, "array", "") >>,
    hard   |-> << Question("q3", "text", QuestionData["q3"].type, "array", "") >>,
    expert |-> << >> ]

\* loadFromExternalSource: the forEach over the questions of one level,
\* from element k on; all is allQuestions
RECURSIVE FlattenLevel(_, _, _, _)
FlattenLevel(list, level, k, all) ==
  IF k > Len(list)
    THEN all
    ELSE FlattenLevel(list, level, k + 1,
           Append(all,
             [ list[k] EXCEPT
                 !.difficulty = level,
                 !.id = IF list[k].id # ""
                          THEN list[k].id
                          ELSE level \o "_" \o ToString(Len(all) + 1) ]))

\* loadFromExternalSource: the forEach over the difficulties, from level l
RECURSIVE FlattenLevels(_, _, _)
FlattenLevels(data, l, all) ==
  IF l > Len(Levels)
    THEN all
    ELSE FlattenLevels(data, l + 1,
           IF Levels[l] \in DOMAIN data
             THEN FlattenLevel(data[Levels[l]], Levels[l], 1, all)
             ELSE all)

\* What fetch() and response.json() can deliver to loadFromExternalSource:
\* the request fails, the status is not OK, the body is not JSON,
\* data.questions is missing, is a scalar, is an object without level
\* lists, is an array (the old format), is the modular object.
FetchOutcomes == { "unreachable", "notOK", "ok" }

DataKinds ==
  { "badJson", "noQuestions", "scalar", "emptyObject", "array", "modular" }

\* loadFromExternalSource throws (and rethrows from its catch)
Throws(kind) ==
  kind \in { "unreachable", "notOK", "badJson", "noQuestions", "scalar" }

\* loadFromExternalSource: the list it returns when it does not throw.  An
\* array passes 'typeof data.questions === "object"' as well, so the old
\* format is flattened like an object without level lists: to [].
loadFromExternalSource(kind) ==
  IF kind = "modular"
    THEN FlattenLevels(ExternalQuestions, 1, << >>)
    ELSE << >>

\* the ids of a list of question records
Ids(list) == [ k \in DOMAIN list |-> list[k].id ]

(***************************************************************************)
(* CouncilManager                                                          *)
(***************************************************************************)
\* CouncilManager.loadCouncils: the call gets past 'if (this.isLoading)
\* return;' and loads
loadCouncilsLoads(isLoading) == ~isLoading

\* reactionMap.agree || 0, reactionMap[answer]
Lookup(m, k) == IF k \in DOMAIN m THEN m[k] ELSE 0

\* CouncilManager.processAnswer: the score of one council for an answer
Score(q, m, answer) ==
  IF QuestionData[q].type = "binary"
    THEN IF answer \in {"true", "agree"}
           THEN Lookup(m, "agree")
           ELSE Lookup(m, "disagree")
    ELSE IF QuestionData[q].type = "multiple"
           THEN IF answer \in QuestionData[q].options /\ answer \in DOMAIN m
                  THEN m[answer]
                  ELSE 0
           ELSE 0

\* the new offendedCount with a slip: a negative score adds its magnitude
NewOffendedCount_Weighted(count, score) ==
  IF score < 0
    THEN count - score
    ELSE IF score > 0 /\ count > 0
           THEN IF count - 1 > 0 THEN count - 1 ELSE 0
           ELSE count

\* the new offendedCount with a slip: a positive score always takes 1 off
NewOffendedCount_NoFloor(count, score) ==
  IF score < 0
    THEN count + 1
    ELSE IF score > 0
           THEN count - 1
           ELSE count

\* CouncilManager.processCouncilReaction: the new offendedCount
NewOffendedCount(count, score) ==
  IF score < 0
    THEN count + 1
    ELSE IF score > 0 /\ count > 0
           THEN IF count - 1 > 0 THEN count - 1 ELSE 0
           ELSE count

\* nowOffended with a slip: the boundary is exclusive
NowOffended_Exclusive(count, tolerance) == count > tolerance

\* CouncilManager.processCouncilReaction: nowOffended
NowOffended(count, tolerance) == count >= tolerance

\* CouncilManager.processCouncilReaction: the reaction it returns, with the
\* council's new offendedCount
processCouncilReaction(count, tolerance, wasOffended, score) ==
  LET newCount == NewOffendedCount(count, score)
      nowOffended == NowOffended(newCount, tolerance)
  IN  [ count |-> newCount,
        score |-> score,
        offended |-> nowOffended,
        newlyOffended |-> nowOffended /\ ~wasOffended ]

\* "newly offended" with a slip: the offended set is not consulted
IsNewlyOffended_NoSetCheck(reactionOffended, inOffendedSet) ==
  reactionOffended

\* CouncilManager.processAnswer: "council was newly offended"
IsNewlyOffended(reactionOffended, inOffendedSet) ==
  reactionOffended /\ ~inOffendedSet

(***************************************************************************)
(* GameEngine                                                              *)
(***************************************************************************)
NullVerdict == [ set |-> FALSE, councilsOffended |-> 0 ]

\* GameEngine.calculateVerdict, acting on the engine part e of the state:
\* the verdict is computed from the offended councils and stored, the phase
\* becomes 'verdict', the game is no longer active, the verdict screen
\* replaces the question.
calculateVerdict(e, offended) ==
  [ e EXCEPT !.stateVerdict = [ set |-> TRUE,
                                councilsOffended |-> Cardinality(offended) ],
             !.phase = "verdict",
             !.isGameActive = FALSE,
             !.displayedQuestion = "none",
             !.verdictCalls = @ + 1 ]

\* GameEngine.handleCouncilOffended, the listener of 'councilOffended'
\* (the metrics counters and the notification are not part of the model)
handleCouncilOffended(e, offended) ==
  IF Cardinality(offended) >= OffendedCap
    THEN calculateVerdict(e, offended)
    ELSE e

\* GameEngine.handleError: the error is reported through dom.showError
handleError(e) ==
  [ e EXCEPT !.errorShown = TRUE ]

\* CouncilManager.processAnswer, the forEach over Object.entries of
\* question.councils from entry i on.  st holds the council ledger (count,
\* offended), the results (newly, reactions), the history (notified,
\* reached) and the engine state e that the 'councilOffended' listener
\* changes while the loop runs.
RECURSIVE ProcessEntries(_, _, _, _)
ProcessEntries(q, answer, i, st) ==
  LET entries == QuestionData[q].councils IN
  IF i > Len(entries)
    THEN st
    ELSE
      LET c == entries[i].council IN
      IF c \notin Councils
        THEN ProcessEntries(q, answer, i + 1, st)
        ELSE
          LET score == Score(q, entries[i].map, answer)
              r == processCouncilReaction(st.count[c], Tolerance[c],
                                          c \in st.offended, score)
              st1 == [ st EXCEPT
                         !.count[c] = r.count,
                         !.reactions = [ d \in (DOMAIN @) \cup {c} |->
                                           IF d = c
                                             THEN [ score |-> r.score,
                                                    offended |-> r.offended,
                                                    newlyOffended |-> r.newlyOffended ]
                                             ELSE @[d] ],
                         !.reached = IF r.count >= Tolerance[c]
                                       THEN @ \cup {c} ELSE @ ]
              st2 == IF IsNewlyOffended(r.offended, c \in st.offended)
                       THEN [ st1 EXCEPT
                                !.offended = @ \cup {c},
                                !.newly = Append(@, c),
                                !.notified[c] = @ + 1,
                                !.e = handleCouncilOffended(@, st.offended \cup {c}) ]
                       ELSE st1
          IN  ProcessEntries(q, answer, i + 1, st2)

\* processAnswer with a slip: a question that names no council is scored
\* with the councils map of question q1
CouncilProcessAnswer_Default(q, answer, st) ==
  IF Len(QuestionData[q].councils) = 0
    THEN ProcessEntries("q1", answer, 1, st)
    ELSE ProcessEntries(q, answer, 1, st)

\* CouncilManager.processAnswer: a question without councils returns []
\* at once, before any council is looked up, any event is emitted or any
\* lastReaction / reactionHistory is written (both are written exactly for
\* the councils that get an entry in reactions{}); otherwise the forEach
\* runs over the entries.
CouncilProcessAnswer(q, answer, st) ==
  IF Len(QuestionData[q].councils) = 0
    THEN st
    ELSE ProcessEntries(q, answer, 1, st)

\* The engine part of the state, as a record
Engine ==
  [ phase |-> phase, stateVerdict |-> stateVerdict,
    isGameActive |-> isGameActive, currentPhase |-> currentPhase,
    displayedQuestion |-> displayedQuestion,
    errorShown |-> errorShown, verdictCalls |-> verdictCalls ]

SetEngine(e) ==
  /\ phase' = e.phase
  /\ stateVerdict' = e.stateVerdict
  /\ isGameActive' = e.isGameActive
  /\ currentPhase' = e.currentPhase
  /\ displayedQuestion' = e.displayedQuestion
  /\ errorShown' = e.errorShown
  /\ verdictCalls' = e.verdictCalls

\* The methods the StateManager class defines (state-manager.js)
StateManagerMethods ==
  { "createInitialState", "init", "get", "set", "getAll", "setAll", "reset",
    "addToHistory", "getHistory", "hasChanges", "save", "load", "clear",
    "validateState", "compress", "decompress", "encrypt", "decrypt",
    "getStats", "export", "import", "destroy" }

(***************************************************************************)
(* The state after construction and GameEngine.init: questions and         *)
(* councils loaded, listeners wired, no game started.                      *)
(***************************************************************************)
EngineInit ==
  /\ questions \in PoolOrders
  /\ currentQuestionIndex = 0
  /\ answeredQuestions = {}
  /\ offendedCount = [ c \in Councils |-> 0 ]
  /\ offendedCouncils = {}
  /\ phase = "start"
  /\ stateVerdict = NullVerdict
  /\ questionsAnswered = << >>
  /\ isGameActive = FALSE
  /\ currentPhase = "start"
  /\ displayedQuestion = "none"
  /\ errorShown = FALSE
  /\ lastReturned = "none"
  /\ lastNewlyOffended = << >>
  /\ lastReactions = << >>
  /\ notified = [ c \in Councils |-> 0 ]
  /\ everReached = {}
  /\ verdictCalls = 0
  /\ sessionAnswered = {}
  /\ answersGiven = 0
  /\ difficulty = "normal"

(***************************************************************************)
(* The question timer of the timed-trials feature                          *)
(* (TIMED_TRIALS_FEATURE.md, "Implementation Details").                    *)
(***************************************************************************)
\* the questions of the trial that carry a timeLimit ("No timer = no
\* timeout"): all but the second one
HasTimeLimit(q) == q # 1

TimerInit ==
  /\ currentQuestion = 0
  /\ timeLeft = 0
  /\ questionTimer = FALSE
  /\ advancePending = 0
  /\ answerLocked = TRUE
  /\ scoreCount = [ q \in 0..(TimedQuestions - 1) |-> 0 ]

\* showQuestion for question q: the question is displayed with its answer
\* buttons enabled and, if it has a timeLimit, startQuestionTimer(seconds)
\* runs updateTimer once: the remaining time is shown, timeLeft is
\* decremented and the next updateTimer is scheduled.
showQuestion(q) ==
  /\ currentQuestion' = q
  /\ IF q < TimedQuestions
       THEN /\ answerLocked' = FALSE
            /\ IF HasTimeLimit(q)
                 THEN /\ timeLeft' = TimeLimit - 1
                      /\ questionTimer' = TRUE
                 ELSE /\ timeLeft' = timeLeft
                      /\ questionTimer' = FALSE
       ELSE /\ answerLocked' = TRUE
            /\ timeLeft' = timeLeft
            /\ questionTimer' = FALSE

\* the trial starts: the first question is shown
ShowFirstQuestion ==
  /\ answerLocked /\ currentQuestion = 0 /\ advancePending = 0
  /\ scoreCount[0] = 0
  /\ showQuestion(0)
  /\ UNCHANGED << advancePending, scoreCount, engineVars, loadVars, pureVars, extVars >>

\* the pending setTimeout(updateTimer, 1000) fires: updateTimer either
\* counts down and reschedules itself or, at timeLeft <= 0, calls
\* handleTimeout: the timer is cleared, the question is scored with the
\* timeout points and the next question is scheduled 3 s later.
\* handleTimeout neither disables the answer buttons nor records that the
\* question has been scored.
UpdateTimer ==
  /\ questionTimer
  /\ IF timeLeft <= 0
       THEN /\ questionTimer' = FALSE
            /\ scoreCount' = [ scoreCount EXCEPT ![currentQuestion] = @ + 1 ]
            /\ advancePending' = advancePending + 1
            /\ UNCHANGED << timeLeft, currentQuestion, answerLocked >>
       ELSE /\ timeLeft' = timeLeft - 1
            /\ UNCHANGED << questionTimer, scoreCount, advancePending,
                            currentQuestion, answerLocked >>
  /\ UNCHANGED << engineVars, loadVars, pureVars, extVars >>

\* the player answers the question on display: the buttons are disabled
\* (DOMManager.handleAnswerClick), the pending timer callback is
\* invalidated, the question is scored and the next question is scheduled
\* 3 s later.
Answer ==
  /\ currentQuestion < TimedQuestions
  /\ ~answerLocked
  /\ answerLocked' = TRUE
  /\ questionTimer' = FALSE
  /\ scoreCount' = [ scoreCount EXCEPT ![currentQuestion] = @ + 1 ]
  /\ advancePending' = advancePending + 1
  /\ UNCHANGED << timeLeft, currentQuestion, engineVars, loadVars, pureVars, extVars >>

\* a pending 3 s timeout fires: currentQuestion++; showQuestion()
\* (the index stops at the end of the trial, where nothing is on display)
Advance ==
  /\ advancePending > 0
  /\ advancePending' = advancePending - 1
  /\ showQuestion(IF currentQuestion < TimedQuestions
                    THEN currentQuestion + 1
                    ELSE currentQuestion)
  /\ UNCHANGED << scoreCount, engineVars, loadVars, pureVars, extVars >>

TimerNext ==
  \/ ShowFirstQuestion
  \/ UpdateTimer
  \/ Answer
  \/ Advance

\* the loaders when GameEngine.init has completed: the questions come from
\* the data file, the councils are the built-in ones
LoadedInit ==
  /\ isInitialized = TRUE
  /\ enginePc = "initialized"
  /\ qmIsLoading = FALSE
  /\ qmLoad = "idle"
  /\ qmPromise = "resolved"
  /\ loadError = FALSE
  /\ questionsLoaded = "external"
  /\ cmIsLoading = FALSE
  /\ cmLoad = "idle"
  /\ councilsLoaded = "builtin"
  /\ awaitedCouncils = FALSE

\* no call of shuffleArray or processQuestions on its own
PureIdle ==
  /\ inputList = << >>
  /\ calledFunction = "none"
  /\ returned = << >>

Init == EngineInit /\ TimerInit /\ LoadedInit /\ PureIdle /\ ExtIdle

\* GameEngine.startGame(difficulty): state.reset(), the difficulty is
\* stored in the state, phase 'playing', metrics reset, first question
\* fetched and rendered; 'No questions available' is thrown (and handled by
\* handleError) after the engine was marked active.
startGame(d) ==
  LET next == getNextQuestion(questions, currentQuestionIndex, answeredQuestions)
      e0 == [ Engine EXCEPT !.phase = "playing",
                            !.stateVerdict = NullVerdict,
                            !.isGameActive = TRUE,
                            !.currentPhase = "playing",
                            !.errorShown = FALSE,
                            !.verdictCalls = 0 ]
  IN  /\ questionsAnswered' = << >>
      /\ currentQuestionIndex' = next.index
      /\ lastReturned' = next.result
      /\ IF next.result = "null"
           THEN SetEngine(handleError(e0))
           ELSE SetEngine([ e0 EXCEPT !.displayedQuestion = next.result ])
      /\ sessionAnswered' = {}
      /\ difficulty' = d
      /\ UNCHANGED << questions, answeredQuestions, offendedCount,
                      offendedCouncils, lastNewlyOffended, lastReactions,
                      notified, everReached, answersGiven, timerVars,
                      loadVars, pureVars, extVars >>

\* startGame(), with the default of its parameter: difficulty = 'normal'
StartGame == startGame("normal")

\* QuestionManager.getNextQuestion called on its own
GetNextQuestion ==
  LET next == getNextQuestion(questions, currentQuestionIndex, answeredQuestions)
  IN  /\ currentQuestionIndex' = next.index
      /\ lastReturned' = next.result
      /\ UNCHANGED << questions, answeredQuestions, offendedCount,
                      offendedCouncils, phase, stateVerdict, questionsAnswered,
                      isGameActive, currentPhase, displayedQuestion,
                      errorShown, lastNewlyOffended, lastReactions, notified,
                      everReached, verdictCalls, sessionAnswered, answersGiven,
                      difficulty, timerVars, loadVars, pureVars, extVars >>

\* QuestionManager.processAnswer(q, answer): the question is marked answered
\* and 'questionAnswered' is emitted, which runs
\* GameEngine.handleQuestionAnswered: metrics, then
\* CouncilManager.processAnswer (whose 'councilOffended' events run
\* handleCouncilOffended), then this.state.addQuestionAnswered(...).
\* StateManager defines no addQuestionAnswered, so the call throws a
\* TypeError, the catch block runs handleError and the rest of the handler
\* (checkGameContinuation, dom.updateQuestion, calculateVerdict) is skipped.
ProcessAnswer(q, answer) ==
  /\ answersGiven < MaxAnswers
  /\ LET st == CouncilProcessAnswer(q, answer,
                 [ count |-> offendedCount, offended |-> offendedCouncils,
                   newly |-> << >>, reactions |-> << >>,
                   notified |-> notified, reached |-> everReached,
                   e |-> Engine ])
     IN  /\ answeredQuestions' = answeredQuestions \cup {q}
         /\ offendedCount' = st.count
         /\ offendedCouncils' = st.offended
         /\ lastNewlyOffended' = st.newly
         /\ lastReactions' = st.reactions
         /\ notified' = st.notified
         /\ everReached' = st.reached
         /\ IF "addQuestionAnswered" \in StateManagerMethods
              THEN SetEngine(st.e)
              ELSE SetEngine(handleError(st.e))
  /\ sessionAnswered' = sessionAnswered \cup {q}
  /\ answersGiven' = answersGiven + 1
  /\ UNCHANGED << questions, currentQuestionIndex, questionsAnswered,
                  lastReturned, difficulty, timerVars, loadVars, pureVars, extVars >>

\* reset with a slip: the offended set is not cleared
CouncilReset_KeepsOffended ==
  /\ offendedCount' = [ c \in Councils |-> 0 ]
  /\ notified' = [ c \in Councils |-> 0 ]
  /\ everReached' = {}
  /\ UNCHANGED << questions, currentQuestionIndex, answeredQuestions, phase,
                  stateVerdict, questionsAnswered, isGameActive, currentPhase,
                  displayedQuestion, errorShown, lastReturned,
                  lastNewlyOffended, lastReactions, verdictCalls,
                  sessionAnswered, answersGiven, offendedCouncils, difficulty,
                  timerVars, loadVars, pureVars, extVars >>

\* reset with a slip: the offense counts are not zeroed
CouncilReset_KeepsCounts ==
  /\ offendedCouncils' = {}
  /\ notified' = [ c \in Councils |-> 0 ]
  /\ everReached' = {}
  /\ UNCHANGED << questions, currentQuestionIndex, answeredQuestions, phase,
                  stateVerdict, questionsAnswered, isGameActive, currentPhase,
                  displayedQuestion, errorShown, lastReturned,
                  lastNewlyOffended, lastReactions, verdictCalls,
                  sessionAnswered, answersGiven, offendedCount, difficulty,
                  timerVars, loadVars, pureVars, extVars >>

\* CouncilManager.reset
CouncilReset ==
  /\ offendedCouncils' = {}
  /\ offendedCount' = [ c \in Councils |-> 0 ]
  /\ notified' = [ c \in Councils |-> 0 ]
  /\ everReached' = {}
  /\ UNCHANGED << questions, currentQuestionIndex, answeredQuestions, phase,
                  stateVerdict, questionsAnswered, isGameActive, currentPhase,
                  displayedQuestion, errorShown, lastReturned,
                  lastNewlyOffended, lastReactions, verdictCalls,
                  sessionAnswered, answersGiven, difficulty, timerVars,
                  loadVars, pureVars, extVars >>

Next ==
  \/ StartGame
  \/ GetNextQuestion
  \/ \E q \in QuestionIds, a \in Answers : ProcessAnswer(q, a)
  \/ CouncilReset

Spec == Init /\ [][Next]_vars

\* the timed trial, for one order of the question pool
TimerSpecInit == Init /\ questions = << "q1", "q2", "q3" >>

TimerSpec == TimerSpecInit /\ [][TimerNext]_vars

(***************************************************************************)
(* Construction of the engine and loading of the data: GameEngine.init,    *)
(* QuestionManager.loadQuestions, CouncilManager.init and loadCouncils.    *)
(* Every await (fetch, response.json) ends a step; the code that follows   *)
(* it runs when the awaited promise settles.                               *)
(***************************************************************************)
\* the part of the engine state that loading does not write
sessionVars ==
  << offendedCount, offendedCouncils, phase, stateVerdict, questionsAnswered,
     isGameActive, currentPhase, displayedQuestion, errorShown, lastReturned,
     lastNewlyOffended, lastReactions, notified, everReached, verdictCalls,
     sessionAnswered, answersGiven, difficulty >>

\* the state before 'new GameEngine()': nothing constructed, nothing loaded
ConstructionInit ==
  /\ questions = << >>
  /\ currentQuestionIndex = 0
  /\ answeredQuestions = {}
  /\ offendedCount = [ c \in Councils |-> 0 ]
  /\ offendedCouncils = {}
  /\ phase = "start"
  /\ stateVerdict = NullVerdict
  /\ questionsAnswered = << >>
  /\ isGameActive = FALSE
  /\ currentPhase = "start"
  /\ displayedQuestion = "none"
  /\ errorShown = FALSE
  /\ lastReturned = "none"
  /\ lastNewlyOffended = << >>
  /\ lastReactions = << >>
  /\ notified = [ c \in Councils |-> 0 ]
  /\ everReached = {}
  /\ verdictCalls = 0
  /\ sessionAnswered = {}
  /\ answersGiven = 0
  /\ difficulty = "normal"
  /\ isInitialized = FALSE
  /\ enginePc = "new"
  /\ qmIsLoading = FALSE
  /\ qmLoad = "idle"
  /\ qmPromise = "none"
  /\ loadError = FALSE
  /\ questionsLoaded = "none"
  /\ cmIsLoading = FALSE
  /\ cmLoad = "idle"
  /\ councilsLoaded = "none"
  /\ awaitedCouncils = FALSE

\* QuestionManager.loadQuestions up to its first await: a call made while
\* isLoading is set returns at once; otherwise isLoading is set, loadError
\* cleared and loadFromExternalSource awaits fetch(dataPath).
loadQuestionsStart ==
  IF qmIsLoading
    THEN UNCHANGED << qmIsLoading, qmLoad, qmPromise, loadError >>
    ELSE /\ qmIsLoading' = TRUE
         /\ loadError' = FALSE
         /\ qmLoad' = "fetch"
         /\ qmPromise' = "pending"

\* 'new GameEngine()': the constructor calls init(), which runs up to
\* 'await Promise.all([...])'.  The QuestionManager constructor leaves
\* isLoading false (its init only reads the cache); the CouncilManager
\* constructor calls init(), whose loadCouncils() sets isLoading and awaits
\* fetch; then the engine calls questions.loadQuestions() and
\* councils.loadCouncils() and awaits both promises.
EngineConstruct ==
  /\ enginePc = "new"
  /\ loadQuestionsStart
  /\ cmIsLoading' = TRUE
  /\ cmLoad' = "fetch"
  /\ awaitedCouncils' = loadCouncilsLoads(cmIsLoading')
  /\ enginePc' = "awaiting"
  /\ UNCHANGED << isInitialized, questionsLoaded, councilsLoaded, engineVars,
                  timerVars, pureVars, extVars >>

\* GameEngine.init after 'await Promise.all([...])': it continues as soon
\* as both awaited promises are resolved, sets isInitialized and emits
\* 'initialized'.
InitContinues(questionsPromise, councilsPending) ==
  IF enginePc = "awaiting" /\ questionsPromise = "resolved" /\ ~councilsPending
    THEN /\ enginePc' = "initialized"
         /\ isInitialized' = TRUE
    ELSE UNCHANGED << enginePc, isInitialized >>

\* loadQuestions, the try block after the await: the processed external
\* list is installed, index and answered set are reset
loadQuestionsInstalls(list) ==
  /\ \E draws \in Draws(Len(ValidQuestions(list))) :
       questions' = Ids(processQuestions(list, draws))
  /\ currentQuestionIndex' = 0
  /\ answeredQuestions' = {}
  /\ questionsLoaded' = "external"
  /\ UNCHANGED loadError

\* loadQuestions, the catch block: loadError is set and the processed
\* built-in list is installed (index and answered set are left alone)
loadQuestionsCatch ==
  /\ loadError' = TRUE
  /\ \E draws \in Draws(Len(ValidQuestions(getBuiltInQuestions))) :
       questions' = Ids(processQuestions(getBuiltInQuestions, draws))
  /\ questionsLoaded' = "builtin"
  /\ UNCHANGED << currentQuestionIndex, answeredQuestions >>

\* loadQuestions, the finally block; the promise of the call resolves (the
\* catch block rethrows nothing) and a GameEngine.init that awaits it goes on
loadQuestionsFinally ==
  /\ qmIsLoading' = FALSE
  /\ qmLoad' = "idle"
  /\ qmPromise' = "resolved"
  /\ InitContinues("resolved", awaitedCouncils)

\* the fetch of loadFromExternalSource settles: rejected, not OK, or OK
\* (then response.json() is awaited)
QuestionsFetchSettles(outcome) ==
  /\ qmLoad = "fetch"
  /\ IF outcome = "ok"
       THEN /\ qmLoad' = "json"
            /\ UNCHANGED << questions, currentQuestionIndex, answeredQuestions,
                            qmIsLoading, qmPromise, loadError, questionsLoaded,
                            enginePc, isInitialized >>
       ELSE /\ Throws(outcome)
            /\ loadQuestionsCatch
            /\ loadQuestionsFinally
  /\ UNCHANGED << sessionVars, cmIsLoading, cmLoad, councilsLoaded,
                  awaitedCouncils, timerVars, pureVars, extVars >>

\* response.json() of loadFromExternalSource settles with data of one kind
QuestionsJsonSettles(kind) ==
  /\ qmLoad = "json"
  /\ IF Throws(kind)
       THEN loadQuestionsCatch
       ELSE loadQuestionsInstalls(loadFromExternalSource(kind))
  /\ loadQuestionsFinally
  /\ UNCHANGED << sessionVars, cmIsLoading, cmLoad, councilsLoaded,
                  awaitedCouncils, timerVars, pureVars, extVars >>

\* What response.json() can deliver to loadCouncils: no JSON, data.councils
\* not an array, an array
CouncilDataKinds == { "badJson", "notArray", "array" }

\* loadCouncils, from the settled await to the end: processCouncils
\* installs the external councils, the catch block the built-in ones; the
\* finally block clears isLoading; the promise resolves.
loadCouncilsCompletes(origin) ==
  /\ councilsLoaded' = origin
  /\ cmIsLoading' = FALSE
  /\ cmLoad' = "idle"
  /\ awaitedCouncils' = FALSE
  /\ InitContinues(qmPromise, FALSE)

\* the fetch of loadCouncils settles
CouncilsFetchSettles(outcome) ==
  /\ cmLoad = "fetch"
  /\ IF outcome = "ok"
       THEN /\ cmLoad' = "json"
            /\ UNCHANGED << councilsLoaded, cmIsLoading, awaitedCouncils,
                            enginePc, isInitialized >>
       ELSE loadCouncilsCompletes("builtin")
  /\ UNCHANGED << engineVars, qmIsLoading, qmLoad, qmPromise, loadError,
                  questionsLoaded, timerVars, pureVars, extVars >>

\* response.json() of loadCouncils settles
CouncilsJsonSettles(kind) ==
  /\ cmLoad = "json"
  /\ loadCouncilsCompletes(IF kind = "array" THEN "external" ELSE "builtin")
  /\ UNCHANGED << engineVars, qmIsLoading, qmLoad, qmPromise, loadError,
                  questionsLoaded, timerVars, pureVars, extVars >>

\* the difficulties a client passes to startGame: the levels of the data
\* file and the default 'normal'
Difficulties == { "easy", "medium", "hard", "expert", "normal" }

\* a session is started once 'initialized' was emitted
LoadNext ==
  \/ EngineConstruct
  \/ \E outcome \in FetchOutcomes : QuestionsFetchSettles(outcome)
  \/ \E kind \in DataKinds : QuestionsJsonSettles(kind)
  \/ \E outcome \in FetchOutcomes : CouncilsFetchSettles(outcome)
  \/ \E kind \in CouncilDataKinds : CouncilsJsonSettles(kind)
  \/ isInitialized /\ \E d \in Difficulties : startGame(d)
  \/ enginePc # "new" /\ GetNextQuestion

LoadSpecInit == ConstructionInit /\ TimerInit /\ PureIdle /\ ExtIdle

LoadSpec == LoadSpecInit /\ [][LoadNext]_vars

(***************************************************************************)
(* shuffleArray and processQuestions on their own, applied to a list of    *)
(* question records.                                                       *)
(***************************************************************************)
\* the records the lists are made of: one valid question of each type, and
\* one record for each way the filter rejects a question
QuestionRecords ==
  { Question("a", "text", "binary", "array", "easy"),
    Question("b", "text", "multiple-choice", "array", "easy"),
    Question("c", "text", "multiple", "array", "easy"),
    Question("", "text", "binary", "array", "easy"),
    Question("d", "", "binary", "array", "easy"),
    Question("e", "text", "essay", "array", "easy"),
    Question("f", "text", "", "array", "easy"),
    Question("g", "text", "binary", "", "easy"),
    Question("h", "text", "multiple-choice", "text", "easy") }

QuestionLists == UNION { [ 1..n -> QuestionRecords ] : n \in 0..MaxLen }

PureInit ==
  /\ inputList \in QuestionLists
  /\ calledFunction = "none"
  /\ returned = << >>

\* shuffleArray(inputList): the array after the in-place shuffle
ShuffleArray ==
  /\ calledFunction = "none"
  /\ \E draws \in Draws(Len(inputList)) :
       returned' = shuffleArray(inputList, draws)
  /\ calledFunction' = "shuffleArray"
  /\ UNCHANGED << inputList, engineVars, timerVars, loadVars, extVars >>

\* processQuestions(inputList)
ProcessQuestions ==
  /\ calledFunction = "none"
  /\ \E draws \in Draws(Len(ValidQuestions(inputList))) :
       returned' = processQuestions(inputList, draws)
  /\ calledFunction' = "processQuestions"
  /\ UNCHANGED << inputList, engineVars, timerVars, loadVars, extVars >>

PureNext ==
  \/ ShuffleArray
  \/ ProcessQuestions

PureSpecInit ==
  /\ EngineInit /\ questions = << "q1", "q2", "q3" >>
  /\ TimerInit /\ LoadedInit /\ PureInit /\ ExtIdle

PureSpec == PureSpecInit /\ [][PureNext]_vars

(***************************************************************************)
(* Properties of the game engine, the question pool and the council ledger *)
(***************************************************************************)
Range(s) == { s[i] : i \in DOMAIN s }

PoolIds == Range(questions)

\* a step in which QuestionManager.processAnswer ran
AnswerStep == answersGiven' # answersGiven

\* the first question in pool order that is not answered, "null" if none
FirstUnanswered(qs, answered) ==
  IF \A i \in DOMAIN qs : qs[i] \in answered
    THEN "null"
    ELSE qs[CHOOSE i \in DOMAIN qs :
              /\ qs[i] \notin answered
              /\ \A j \in DOMAIN qs : j < i => qs[j] \in answered]

\* C1: in phase 'playing', the answer with which the number of offended
\* councils reaches the cap of 5, and the answer to the last unanswered
\* question, move the session to phase 'verdict' with a verdict stored and
\* no question presented any more.
C1_VerdictOnCapOrLastQuestion ==
  [][ ( /\ phase = "playing"
        /\ AnswerStep
        /\ \/ /\ Cardinality(offendedCouncils) < OffendedCap
              /\ Cardinality(offendedCouncils') >= OffendedCap
           \/ /\ ~(PoolIds \subseteq answeredQuestions)
              /\ PoolIds \subseteq answeredQuestions' )
      => ( /\ phase' = "verdict"
           /\ stateVerdict'.set
           /\ displayedQuestion' = "none" ) ]_vars

\* C2: a 'questionAnswered' event received while the game is active, with
\* fewer than 5 councils offended and unanswered questions left, keeps the
\* phase 'playing' and presents the next unanswered question, without
\* ending in the handler's error path.
C2_ContinuesWithNextQuestion ==
  [][ ( /\ isGameActive
        /\ AnswerStep
        /\ Cardinality(offendedCouncils') < OffendedCap
        /\ ~(PoolIds \subseteq answeredQuestions') )
      => ( /\ phase' = "playing"
           /\ displayedQuestion' = FirstUnanswered(questions, answeredQuestions')
           /\ ~errorShown' ) ]_vars

\* C3: within one session (since the last startGame) the verdict is
\* calculated at most once.
C3_VerdictCalculatedOnce ==
  currentPhase = "playing" => verdictCalls <= 1

\* C4: startGame leaves every council with offense count 0, the offended
\* set empty and no question marked answered.
C4_StartGameResetsSession ==
  [][ StartGame
      => ( /\ \A c \in Councils : offendedCount'[c] = 0
           /\ offendedCouncils' = {}
           /\ answeredQuestions' = {} ) ]_vars

\* C5: a displayed question is scored at most once, by the answer or by
\* the timer expiry but never by both, and every question that has been
\* left behind was scored exactly once.
C5_ScoredExactlyOnce ==
  \A q \in 0..(TimedQuestions - 1) :
    /\ scoreCount[q] <= 1
    /\ q < currentQuestion => scoreCount[q] = 1

\* C6: getNextQuestion never returns an id that was already passed to
\* processAnswer, and no question id is passed to processAnswer twice in a
\* session.
C6_NoQuestionAnsweredTwice ==
  [][ /\ (GetNextQuestion \/ StartGame) => lastReturned' \notin answeredQuestions
      /\ AnswerStep => sessionAnswered' # sessionAnswered ]_vars

C8_OffendedReportedOnce ==
  \A c \in Councils : notified[c] <= 1

\* a council that was reported, fell below its tolerance and has now
\* crossed it again in a call that did not report it
C8_Witness ==
  \E c \in Councils :
    /\ notified[c] = 1
    /\ c \in DOMAIN lastReactions
    /\ lastReactions[c].score < 0
    /\ lastReactions[c].offended
    /\ ~lastReactions[c].newlyOffended
    /\ offendedCount[c] = Tolerance[c]
    /\ c \notin Range(lastNewlyOffended)

\* C9 (as stated): every processAnswer call that brings a council's count
\* to exactly its tolerance has reaction.offended true and returns the
\* council as newly offended.
C9_BoundaryAlwaysReported ==
  [][ AnswerStep
      => \A c \in Councils :
           ( /\ offendedCount'[c] # offendedCount[c]
             /\ offendedCount'[c] = Tolerance[c] )
           => ( /\ c \in DOMAIN lastReactions'
                /\ lastReactions'[c].offended
                /\ c \in Range(lastNewlyOffended') ) ]_vars

\* C9 (amended): a processAnswer call that brings a council's count to
\* exactly its tolerance has reaction.offended true, and returns the council
\* as newly offended exactly if the council was not in the offended set
\* before the call; a call that leaves the count of a council outside the
\* offended set strictly below its tolerance does not report it.
C9_InclusiveBoundary ==
  [][ AnswerStep
      => \A c \in Councils :
           /\ ( /\ offendedCount'[c] # offendedCount[c]
                /\ offendedCount'[c] = Tolerance[c] )
              => ( /\ c \in DOMAIN lastReactions'
                   /\ lastReactions'[c].offended
                   /\ (c \in Range(lastNewlyOffended')) = (c \notin offendedCouncils) )
           /\ ( /\ c \notin offendedCouncils
                /\ offendedCount'[c] < Tolerance[c] )
              => ( /\ c \notin Range(lastNewlyOffended')
                   /\ c \notin offendedCouncils'
                   /\ c \in DOMAIN lastReactions' => ~lastReactions'[c].offended ) ]_vars

\* a council reported by the call that brought its count to its tolerance
C9_Witness ==
  \E c \in Councils :
    /\ Tolerance[c] > 1
    /\ offendedCount[c] = Tolerance[c]
    /\ c \in Range(lastNewlyOffended)
    /\ c \in DOMAIN lastReactions
    /\ lastReactions[c].offended

\* C10 (as stated): a council is in getOffendedCouncils() if and only if
\* its offense count is at least its tolerance.
C10_OffendedIffAtTolerance ==
  \A c \in Councils :
    (c \in offendedCouncils) = (offendedCount[c] >= Tolerance[c])

\* C10 (amended): every council whose offense count is at least its
\* tolerance is in getOffendedCouncils(), and a council is a member exactly
\* if its count has reached its tolerance at some time since the last reset
\* (membership is kept when the count falls below the tolerance again).
C10_OffendedIsLatched ==
  \A c \in Councils :
    /\ offendedCount[c] >= Tolerance[c] => c \in offendedCouncils
    /\ (c \in offendedCouncils) = (c \in everReached)

\* an offended council whose count has fallen below its tolerance
C10_Witness ==
  \E c \in offendedCouncils : offendedCount[c] < Tolerance[c]

\* C11 (as stated): a negatively scored answer increases the council's
\* offense count by the weight (the magnitude of the score) of the answer.
C11_OffenseGrowsByWeight ==
  [][ AnswerStep
      => \A c \in Councils :
           (c \in DOMAIN lastReactions' /\ lastReactions'[c].score < 0)
           => offendedCount'[c] = offendedCount[c] - lastReactions'[c].score ]_vars

\* C11 (amended): a negatively scored answer increases the council's
\* offense count by exactly 1, whatever the magnitude of the score.
C11_OffenseGrowsByOne ==
  [][ AnswerStep
      => \A c \in Councils :
           (c \in DOMAIN lastReactions' /\ lastReactions'[c].score < 0)
           => offendedCount'[c] = offendedCount[c] + 1 ]_vars

\* an answer of weight 2 has moved a council's count from 0 to 1
C11_Witness ==
  \E c \in Councils :
    /\ c \in DOMAIN lastReactions
    /\ lastReactions[c].score = -2
    /\ offendedCount[c] = 1

C13_ResetClearsLedger ==
  [][ CouncilReset
      => ( /\ \A c \in Councils : offendedCount'[c] = 0
           /\ offendedCouncils' = {} ) ]_vars

\* the ledger is clear although the last processAnswer call offended a
\* council: reset ran after it
C13_Witness ==
  /\ lastNewlyOffended # << >>
  /\ offendedCouncils = {}
  /\ \A c \in Councils : offendedCount[c] = 0

\* C14: CouncilManager.processAnswer on a question that names no council
\* returns an empty result, emits no 'councilOffended' event and leaves the
\* offense count of every council, the offended set and (no council gets a
\* reaction) every lastReaction and reactionHistory unchanged.
C14_NoCouncilNoEffect ==
  [][ \A q \in QuestionIds, a \in Answers :
        (ProcessAnswer(q, a) /\ Len(QuestionData[q].councils) = 0)
        => ( /\ lastNewlyOffended' = << >>
             /\ lastReactions' = << >>
             /\ notified' = notified
             /\ offendedCount' = offendedCount
             /\ offendedCouncils' = offendedCouncils
             /\ everReached' = everReached ) ]_vars

\* the question without councils was answered last, with a council offended
\* before it
C14_Witness ==
  /\ "q2" \in sessionAnswered
  /\ lastReactions = << >>
  /\ lastNewlyOffended = << >>
  /\ offendedCouncils # {}
  /\ \E c \in Councils : offendedCount[c] > 0

\* C15: every 'questionAnswered' event of a session appends one record for
\* the answer to the session state's questionsAnswered sequence (which
\* startGame empties), so that after k events it holds the k records in the
\* order of the answers.
C15_AnswersRecordedInOrder ==
  [][ \A q \in QuestionIds, a \in Answers :
        (ProcessAnswer(q, a) /\ currentPhase = "playing")
        => questionsAnswered' =
             Append(questionsAnswered, [ questionId |-> q, answer |-> a ]) ]_vars

\* number of positions of a list that hold x
Count(list, x) == Cardinality({ k \in DOMAIN list : list[k] = x })

\* a question record that has an id, a text, a type among the three valid
\* types and an options array
WellFormed(q) ==
  /\ q.id # ""
  /\ q.text # ""
  /\ q.type \in { "binary", "multiple-choice", "multiple" }
  /\ q.options = "array"

\* C18: with maxQuestions unset, the result of processQuestions contains
\* precisely the input questions that have an id, a text, a valid type and
\* an options array, each as often as the input does: malformed records
\* are dropped and no valid record is.
C18_DropsExactlyMalformed ==
  calledFunction = "processQuestions"
  => /\ Range(returned) =
          { inputList[k] : k \in { i \in DOMAIN inputList : WellFormed(inputList[i]) } }
     /\ \A x \in QuestionRecords :
          Count(returned, x) = IF WellFormed(x) THEN Count(inputList, x) ELSE 0

\* a malformed record between two valid ones was dropped, both were kept
C18_Witness ==
  /\ calledFunction = "processQuestions"
  /\ Len(inputList) = 3
  /\ WellFormed(inputList[1]) /\ ~WellFormed(inputList[2]) /\ WellFormed(inputList[3])
  /\ inputList[1] # inputList[3]
  /\ Len(returned) = 2

\* the orderings of n positions
Orderings(n) ==
  { p \in [ 1..n -> 1..n ] : \A i, j \in 1..n : i # j => p[i] # p[j] }

\* C19: shuffleArray returns a permutation of its input (the same elements
\* with the same multiplicities, the same length), and each of the n!
\* orderings of the n positions is produced by some sequence of draws with
\* 0 <= j <= i in every iteration.
C19_ShuffleReachesEveryOrdering ==
  /\ calledFunction = "shuffleArray"
     => /\ Len(returned) = Len(inputList)
        /\ \A x \in Range(returned) \cup Range(inputList) :
             Count(returned, x) = Count(inputList, x)
  /\ calledFunction = "none"
     => LET n == Len(inputList) IN
        /\ \A draws \in Draws(n) : \A i \in 1..(n - 1) :
             0 <= draws[i] /\ draws[i] <= i
        /\ \A p \in Orderings(n) :
             \E draws \in Draws(n) :
               shuffleArray([ k \in 1..n |-> k ], draws) = p

\* a list of three elements, two of them equal, came back in another order
C19_Witness ==
  /\ calledFunction = "shuffleArray"
  /\ Len(inputList) = 3
  /\ inputList[1] = inputList[2]
  /\ inputList[3] # inputList[1]
  /\ returned # inputList

\* C16: when GameEngine emits 'initialized', both the question list and the
\* council map have finished loading (from the external source or from the
\* built-in fallback), whatever the order in which the fetches settle.
C16_LoadedWhenInitialized ==
  [][ (~isInitialized /\ isInitialized')
      => ( /\ questionsLoaded' # "none"
           /\ councilsLoaded' # "none" ) ]_vars

DifficultyOf(id) ==
  LET loaded == FlattenLevels(ExternalQuestions, 1, << >>) \o getBuiltInQuestions
  IN  loaded[CHOOSE k \in DOMAIN loaded : loaded[k].id = id].difficulty

\* C20: every question offered during a session started with difficulty d
\* (by startGame and by every later getNextQuestion) is a question of
\* difficulty d.
C20_OfferedMatchDifficulty ==
  [][ /\ \A d \in Difficulties :
           (startGame(d) /\ lastReturned' # "null")
           => DifficultyOf(lastReturned') = d
      /\ (GetNextQuestion /\ currentPhase = "playing" /\ lastReturned' # "null")
           => DifficultyOf(lastReturned') = difficulty ]_vars

(***************************************************************************)
(* The persisted question pool of heretical-game.html: the used-question   *)
(* set in localStorage and the queue of a session.                         *)
(***************************************************************************)
PoolSize == 2

PoolDifficulties == { "easy", "hard" }

\* allQuestions of a difficulty, in file order; ids are unique within a
\* difficulty only
allQuestions(d) == [ i \in 1..PoolSize |-> i ]

\* getUsedQuestionIds(difficulty): the ids stored under `${difficulty}_${id}`
getUsedQuestionIds(used, d) == { k[2] : k \in { u \in used : u[1] = d } }

\* getFreshQuestions(allQuestions, difficulty): the questions whose key is
\* not in the used set; when none is left of a non-empty pool,
\* resetUsedQuestions clears the keys of the difficulty and every question
\* is eligible again
getFreshQuestions(all, used, d) ==
  LET fresh ==
        SelectSeq(all, LAMBDA id : id \notin getUsedQuestionIds(used, d))
      exhausted == Len(fresh) = 0 /\ Len(all) > 0
  IN  [ fresh |-> IF exhausted THEN all ELSE fresh,
        used  |-> IF exhausted THEN { u \in used : u[1] # d } ELSE used ]

wasReset_Never(usedBefore, freshLength, allLength, usedNow) == FALSE

wasReset_NoUsedBefore(usedBefore, freshLength, allLength, usedNow) ==
  freshLength = allLength /\ usedNow = 0

\* const wasReset = (usedBefore > 0) && (freshQuestions.length ===
\*   allQuestions.length) && (getUsedQuestionIds(difficulty).length === 0)
wasReset(usedBefore, freshLength, allLength, usedNow) ==
  usedBefore > 0 /\ freshLength = allLength /\ usedNow = 0

\* beginSession(difficulty): filter, reset on exhaustion, shuffle
beginSession(d) ==
  LET all == allQuestions(d)
      usedBefore == Cardinality(getUsedQuestionIds(usedQuestions, d))
      r == getFreshQuestions(all, usedQuestions, d)
  IN  /\ usedQuestions' = r.used
      /\ \E draws \in Draws(Len(r.fresh)) :
           shuffledQueue' = shuffleArray(r.fresh, draws)
      /\ poolWasReset' =
           wasReset(usedBefore, Len(r.fresh), Len(all),
                    Cardinality(getUsedQuestionIds(r.used, d)))
      /\ sessionDifficulty' = d
      /\ lastOffered' = 0
      /\ UNCHANGED << coreVars, verdictVars, smVars, emitterVars, errorVars, retryVars, sanitizeVars, ledgerVars, loaderVars, historyVars >>

\* next(): pops the front of the queue and records its key
\* (markQuestionAsUsed); nothing to pop when the queue is empty
next ==
  /\ shuffledQueue # << >>
  /\ lastOffered' = Head(shuffledQueue)
  /\ shuffledQueue' = Tail(shuffledQueue)
  /\ usedQuestions' =
       usedQuestions \cup { << sessionDifficulty, Head(shuffledQueue) >> }
  /\ UNCHANGED << sessionDifficulty, poolWasReset, coreVars, verdictVars, smVars, emitterVars, errorVars, retryVars, sanitizeVars, ledgerVars, loaderVars, historyVars >>

UsedNext ==
  \/ \E d \in PoolDifficulties : beginSession(d)
  \/ next

UsedSpec == Init /\ [][UsedNext]_vars

\* C21: a question whose key is in the persisted used set is never offered:
\* every queued question of the running session is unused, the question
\* handed out by next() was unused, and the queue built by beginSession is
\* disjoint from the set persisted before the call unless the call reset it
C21_UsedNeverOffered ==
  /\ [](\A i \in DOMAIN shuffledQueue :
          << sessionDifficulty, shuffledQueue[i] >> \notin usedQuestions)
  /\ [][next => << sessionDifficulty, lastOffered' >> \notin usedQuestions]_vars
  /\ [][\A d \in PoolDifficulties :
          beginSession(d) =>
            \/ poolWasReset'
            \/ Range(shuffledQueue') \cap getUsedQuestionIds(usedQuestions, d)
                 = {}]_vars

\* a second session of a difficulty, begun with one of its keys persisted
C21_Witness ==
  /\ sessionDifficulty = "easy"
  /\ ~poolWasReset
  /\ lastOffered = 0
  /\ getUsedQuestionIds(usedQuestions, "easy") # {}
  /\ shuffledQueue # << >>

\* C22: beginSession raises the flag exactly when the used set of the
\* difficulty was non-empty and the filter left nothing; the used set of the
\* difficulty is then empty and the queue is the whole pool; a first session
\* (nothing persisted) never raises it
C22_ResetFlagExact ==
  [][\A d \in PoolDifficulties :
       beginSession(d) =>
         LET usedBefore == getUsedQuestionIds(usedQuestions, d)
             eligible == { id \in Range(allQuestions(d)) : id \notin usedBefore }
         IN  /\ poolWasReset' <=> (usedBefore # {} /\ eligible = {})
             /\ poolWasReset' =>
                  /\ getUsedQuestionIds(usedQuestions', d) = {}
                  /\ Range(shuffledQueue') = Range(allQuestions(d))
                  /\ Len(shuffledQueue') = Len(allQuestions(d))
             /\ usedQuestions = {} => ~poolWasReset']_vars

\* a session that began with the pool of its difficulty exhausted
C22_Witness ==
  /\ poolWasReset
  /\ Len(shuffledQueue) = PoolSize
  /\ getUsedQuestionIds(usedQuestions, sessionDifficulty) = {}

(***************************************************************************)
(* VerdictCalculator.determineVerdictType. calculateFinalScore rounds the  *)
(* score to one decimal: scores and thresholds are counted in tenths.      *)
(***************************************************************************)
MaxScore == 80

Scores == (0 - MaxScore)..MaxScore

\* config.thresholds (default); doomed { min: -Infinity, max: -5 } is
\* destructured by determineVerdictType and never read
thresholds ==
  [ faithful   |-> [ min |-> -20, max |-> 20 ],
    borderline |-> [ min |-> -50, max |-> 50 ] ]

determineVerdictType(score) ==
  IF score >= thresholds.faithful.min /\ score <= thresholds.faithful.max
    THEN "faithful"
    ELSE IF score >= thresholds.borderline.min
              /\ score <= thresholds.borderline.max
           THEN "borderline"
           ELSE "doomed"

\* determineVerdictType(verdictScore)
DetermineVerdictType ==
  /\ verdictType = "none"
  /\ verdictType' = determineVerdictType(verdictScore)
  /\ UNCHANGED << verdictScore, coreVars, usedVars, smVars, emitterVars, errorVars, retryVars, sanitizeVars, ledgerVars, loaderVars, historyVars >>

VerdictSpecInit ==
  /\ EngineInit /\ TimerInit /\ LoadedInit /\ PureIdle
  /\ ExtIdleExcept("verdict")
  /\ verdictScore \in Scores
  /\ verdictType = "none"

VerdictSpec == VerdictSpecInit /\ [][DetermineVerdictType]_vars

\* the order of the categories: doomed < borderline < faithful
CategoryRank(type) ==
  CASE type = "doomed" -> 0 [] type = "borderline" -> 1 [] type = "faithful" -> 2

\* C23: the category of a score is one of the three, and no higher score
\* gets a worse category (the categories are contiguous ranges ordered
\* doomed < borderline < faithful, faithful unbounded above)
C23_HigherScoreNeverWorse ==
  verdictType # "none" =>
    /\ verdictType \in { "faithful", "borderline", "doomed" }
    /\ \A higher \in Scores :
         higher > verdictScore =>
           CategoryRank(determineVerdictType(higher)) >= CategoryRank(verdictType)

(***************************************************************************)
(* StateManager: get and set with dot notation, save, load, clear, and the *)
(* life of an instance from its constructor to destroy.                    *)
(***************************************************************************)
MaxCalls == 2

MaxInstances == 2

\* keys 'top' and 'top.sub'
StateKeys ==
  { << k >> : k \in TopKeys } \cup { << k, sub >> : k \in TopKeys, sub \in SubKeys }

\* the values passed to set
SetValues == { Str("a"), Str("wide"), Undefined }

\* StateManager.get(key): undefined unless every prefix is an object
\* (current && typeof current === 'object' && k in current) holding the key
get(state, key) ==
  LET top == state[key[1]]
  IN  IF Len(key) = 1
        THEN IF top.t = "absent" THEN Undefined ELSE top
        ELSE IF top.t = "object" /\ top.f[key[2]] \notin { "absent", "undefined" }
               THEN Str(top.f[key[2]])
               ELSE Undefined

\* the loop of set over the prefix: a property that is missing or whose
\* typeof is not 'object' becomes {}; typeof null is 'object', null stays
setPrefix(top) ==
  IF top.t \in { "object", "null" } THEN top ELSE JsValue("object", "", NoFields)

\* StateManager.set(key, value): the state after the call, and whether
\* current[lastKey] = newValue threw (current is null)
set(state, key, value) ==
  IF Len(key) = 1
    THEN [ threw |-> FALSE, state |-> [ state EXCEPT ![key[1]] = value ] ]
    ELSE LET current == setPrefix(state[key[1]])
             leaf == IF value.t = "undefined" THEN "undefined" ELSE value.v
         IN  IF current.t = "null"
               THEN [ threw |-> TRUE, state |-> state ]
               ELSE [ threw |-> FALSE,
                      state |-> [ state EXCEPT ![key[1]] =
                                    [ current EXCEPT !.f[key[2]] = leaf ] ] ]

\* JSON.parse(JSON.stringify(state)): properties holding undefined are dropped
JsonRoundTrip(state) ==
  [ k \in TopKeys |->
      CASE state[k].t = "undefined" -> Absent
        [] state[k].t = "object" ->
             [ state[k] EXCEPT !.f =
                 [ sub \in SubKeys |->
                     IF state[k].f[sub] = "undefined" THEN "absent"
                                                      ELSE state[k].f[sub] ] ]
        [] OTHER -> state[k] ]

\* StateManager.validateState: the initial state unless the required keys
\* are present, else the initial state overlaid with the properties given
validateState(state) ==
  IF state["phase"].t = "absent"
    THEN createInitialState
    ELSE [ k \in TopKeys |->
             IF state[k].t = "absent" THEN createInitialState[k] ELSE state[k] ]

\* btoa throws InvalidCharacterError on a character above U+00FF; the XOR
\* with a Latin-1 key keeps such a character above U+00FF
BtoaThrows(state) ==
  \E k \in TopKeys :
    \/ state[k].t = "string" /\ state[k].v = "wide"
    \/ state[k].t = "object" /\ \E sub \in SubKeys : state[k].f[sub] = "wide"

\* StateManager.save: compress, encrypt (JSON.stringify, XOR, btoa), then
\* JSON.stringify and setItem when localStorage is defined
save(state, config, storage) ==
  IF config.encryptionKey /\ BtoaThrows(JsonRoundTrip(state))
    THEN [ threw |-> TRUE, storage |-> storage ]
    ELSE [ threw |-> FALSE,
           storage |->
             IF storage.present
               THEN [ storage EXCEPT !.item =
                        [ has |-> TRUE,
                          compressed |-> config.enableCompression,
                          encrypted |-> config.encryptionKey,
                          state |-> JsonRoundTrip(state) ] ]
               ELSE storage ]

\* StateManager.load: null without localStorage or without item, else the
\* item decrypted (when a key is configured and the item is encrypted),
\* decompressed, its state validated
load(config, storage) ==
  IF ~storage.present \/ ~storage.item.has
    THEN NoItem
    ELSE [ has |-> TRUE, compressed |-> FALSE, encrypted |-> FALSE,
           state |->
             IF storage.item.encrypted /\ ~config.encryptionKey
               THEN validateState([ k \in TopKeys |-> Absent ])
               ELSE validateState(storage.item.state) ]

\* new StateManager(config): the constructor calls init(), which runs
\* load() up to its return and awaits the result
Construct ==
  /\ smPc \in { "none", "destroyed" }
  /\ smInstances < MaxInstances
  /\ smInstances' = smInstances + 1
  /\ smState' = createInitialState
  /\ hasUnsavedChanges' = FALSE
  /\ smLoaded' = load(smConfig, localStorage)
  /\ smPc' = "loading"
  /\ smCleared' = FALSE
  /\ smThrew' = "none"
  /\ UNCHANGED << smCalls, localStorage, smConfig, smSnapshot, coreVars,
                  usedVars, verdictVars, emitterVars, errorVars, retryVars, sanitizeVars, ledgerVars, loaderVars, historyVars >>

\* init() after the await: a saved state replaces this.state, then
\* 'initialized' is emitted
InitCompletes ==
  /\ smPc = "loading"
  /\ smState' = IF smLoaded.has THEN validateState(smLoaded.state) ELSE smState
  /\ smPc' = "ready"
  /\ UNCHANGED << hasUnsavedChanges, smLoaded, smInstances, smCalls,
                  localStorage, smConfig, smSnapshot, smCleared, smThrew,
                  coreVars, usedVars, verdictVars, emitterVars, errorVars, retryVars, sanitizeVars, ledgerVars, loaderVars, historyVars >>

\* stateManager.set(key, value)
Set(key, value) ==
  /\ smPc \in { "loading", "ready" }
  /\ smCalls < MaxCalls
  /\ smCalls' = smCalls + 1
  /\ LET r == set(smState, key, value)
     IN  /\ smState' = r.state
         /\ hasUnsavedChanges' = IF r.threw THEN hasUnsavedChanges ELSE TRUE
         /\ smCleared' = IF r.threw THEN smCleared ELSE FALSE
         /\ smThrew' = IF r.threw THEN "set" ELSE "none"
  /\ UNCHANGED << smPc, smLoaded, smInstances, localStorage, smConfig,
                  smSnapshot, coreVars, usedVars, verdictVars, emitterVars, errorVars, retryVars, sanitizeVars, ledgerVars, loaderVars, historyVars >>

\* stateManager.reset()
Reset ==
  /\ smPc \in { "loading", "ready" }
  /\ smCalls < MaxCalls
  /\ smCalls' = smCalls + 1
  /\ smState' = createInitialState
  /\ hasUnsavedChanges' = TRUE
  /\ smCleared' = FALSE
  /\ smThrew' = "none"
  /\ UNCHANGED << smPc, smLoaded, smInstances, localStorage, smConfig,
                  smSnapshot, coreVars, usedVars, verdictVars, emitterVars, errorVars, retryVars, sanitizeVars, ledgerVars, loaderVars, historyVars >>

\* stateManager.save()
Save ==
  /\ smPc \in { "loading", "ready" }
  /\ smCalls < MaxCalls
  /\ smCalls' = smCalls + 1
  /\ LET r == save(smState, smConfig, localStorage)
     IN  /\ localStorage' = r.storage
         /\ hasUnsavedChanges' = IF r.threw THEN hasUnsavedChanges ELSE FALSE
         /\ smThrew' = IF r.threw THEN "save" ELSE "none"
  /\ UNCHANGED << smPc, smState, smLoaded, smInstances, smConfig,
                  smSnapshot, smCleared, coreVars, usedVars, verdictVars, emitterVars, errorVars, retryVars, sanitizeVars, ledgerVars, loaderVars, historyVars >>

\* stateManager.clear()
Clear ==
  /\ smPc \in { "loading", "ready" }
  /\ smCalls < MaxCalls
  /\ smCalls' = smCalls + 1
  /\ localStorage' =
       IF localStorage.present THEN [ localStorage EXCEPT !.item = NoItem ]
                               ELSE localStorage
  /\ hasUnsavedChanges' = FALSE
  /\ smCleared' = TRUE
  /\ smThrew' = "none"
  /\ UNCHANGED << smPc, smState, smLoaded, smInstances, smConfig,
                  smSnapshot, coreVars, usedVars, verdictVars, emitterVars, errorVars, retryVars, sanitizeVars, ledgerVars, loaderVars, historyVars >>

\* stateManager.destroy(): a last save() when there are unsaved changes,
\* its rejection caught
Destroy ==
  /\ smPc \in { "loading", "ready" }
  /\ LET r == save(smState, smConfig, localStorage)
     IN  IF hasUnsavedChanges
           THEN /\ localStorage' = r.storage
                /\ hasUnsavedChanges' = r.threw
           ELSE UNCHANGED << localStorage, hasUnsavedChanges >>
  /\ smSnapshot' = [ taken |-> ~smCleared, calls |-> smCalls, state |-> smState ]
  /\ smPc' = "destroyed"
  /\ smThrew' = "none"
  /\ UNCHANGED << smState, smLoaded, smInstances, smCalls, smConfig, smCleared,
                  coreVars, usedVars, verdictVars, emitterVars, errorVars, retryVars, sanitizeVars, ledgerVars, loaderVars, historyVars >>

StateNext ==
  \/ Construct
  \/ InitCompletes
  \/ \E key \in StateKeys, value \in SetValues : Set(key, value)
  \/ Reset
  \/ Save
  \/ Clear
  \/ Destroy

\* no instance yet; the storage capability and the configuration are any
StateSpecInit ==
  /\ EngineInit /\ questions = << "q1", "q2", "q3" >>
  /\ TimerInit /\ LoadedInit /\ PureIdle
  /\ ExtIdleExcept("state")
  /\ smPc = "none"
  /\ smState = createInitialState
  /\ hasUnsavedChanges = FALSE
  /\ smLoaded = NoItem
  /\ smInstances = 0
  /\ smCalls = 0
  /\ localStorage \in [ present : BOOLEAN, item : { NoItem } ]
  /\ smConfig \in [ enableCompression : BOOLEAN, encryptionKey : BOOLEAN ]
  /\ smSnapshot = [ taken |-> FALSE, calls |-> 0, state |-> createInitialState ]
  /\ smCleared = FALSE
  /\ smThrew = "none"

StateSpec == StateSpecInit /\ [][StateNext]_vars

\* C24: after a restart get returns what the destroyed instance held: when
\* init completes on a new instance (storage present, the saved item not
\* cleared, no call made on the new instance yet, no property holding
\* undefined, which JSON cannot represent), every key has the value it had
\* when the previous instance was destroyed, with compression and encryption
\* each enabled or disabled
C24_StateSurvivesRestart ==
  [][(/\ InitCompletes
      /\ smSnapshot.taken
      /\ localStorage.present
      /\ smCalls = smSnapshot.calls
      /\ JsonRoundTrip(smSnapshot.state) = smSnapshot.state)
       => \A key \in StateKeys :
            get(smState', key) = get(smSnapshot.state, key)]_vars

\* C25: get(key) returns the value that set(key, value) has just written
C25_GetReturnsWhatSetWrote ==
  [][\A key \in StateKeys, value \in SetValues :
       Set(key, value) => get(smState', key) = value]_vars

\* C26: without the storage capability save does not throw and leaves the
\* storage alone, the load of the constructor returns null, and set and
\* reset change the state as they do with storage present
C26_NoStorageNoThrow ==
  [][~localStorage.present =>
       /\ localStorage' = localStorage
       /\ Save => smThrew' = "none"
       /\ Clear => smThrew' = "none"
       /\ Construct => ~smLoaded'.has
       /\ Reset => smState' = createInitialState
       /\ \A key \in StateKeys, value \in SetValues :
            Set(key, value) => smState' = set(smState, key, value).state]_vars

\* C31: a value written with set while the initial load is pending is not
\* lost: when init completes with a saved state, every key that set has moved
\* away from its initial value since the construction still has that value
C31_SetBeforeLoadNotLost ==
  [][(InitCompletes /\ smLoaded.has)
       => \A key \in StateKeys :
            get(smState, key) # get(createInitialState, key)
              => get(smState', key) = get(smState, key)]_vars

(***************************************************************************)
(* GameEngine: the records of the session phase.                           *)
(***************************************************************************)
\* C32: the engine's records of the phase agree: isGameActive holds exactly
\* when the state's phase is 'playing', and currentPhase is the state's phase
C32_PhaseRecordsAgree ==
  /\ isGameActive <=> phase = "playing"
  /\ currentPhase = phase

\* C33: a startGame that finds no question available leaves the engine
\* outside an active game: not active, and the phase is not 'playing'
C33_FailedStartLeavesInactive ==
  [][(StartGame /\ lastReturned' = "null")
       => (~isGameActive' /\ phase' # "playing")]_vars

(***************************************************************************)
(* EventEmitter: the listeners of one event e.                             *)
(***************************************************************************)
MaxRegistrations == 3

\* callback functions passed to on and once; "t" throws when it is called
Callbacks == { "f", "g", "t" }

\* a registered callback: the function itself (on), or the wrapper that
\* once creates for its registration
Listener(reg, callback, wrapped) ==
  [ reg |-> reg, fn |-> << callback, IF wrapped THEN reg ELSE 0 >>,
    once |-> wrapped ]

\* callbacks.indexOf(fn): the first index holding fn, 0 for -1
IndexOf(callbacks, fn) ==
  IF \E i \in DOMAIN callbacks : callbacks[i].fn = fn
    THEN CHOOSE i \in DOMAIN callbacks :
           /\ callbacks[i].fn = fn
           /\ \A j \in 1..(i - 1) : callbacks[j].fn # fn
    ELSE 0

\* the unsubscribe function returned by on: splice(index, 1) if index > -1
unsubscribe(callbacks, fn) ==
  LET index == IndexOf(callbacks, fn)
  IN  IF index > 0
        THEN SubSeq(callbacks, 1, index - 1)
               \o SubSeq(callbacks, index + 1, Len(callbacks))
        ELSE callbacks

\* callbacks.forEach(callback => { try { callback(...args) } catch ... }) on
\* the live array: indices k..len of the length at the call, an index the
\* array no longer has is skipped; a once wrapper unsubscribes itself and
\* calls its callback; an error thrown by a callback is caught and logged
RECURSIVE forEach(_, _, _, _)
forEach(callbacks, k, len, invoked) ==
  IF k > len
    THEN [ callbacks |-> callbacks, invoked |-> invoked ]
    ELSE IF k > Len(callbacks)
           THEN forEach(callbacks, k + 1, len, invoked)
           ELSE forEach(IF callbacks[k].once
                          THEN unsubscribe(callbacks, callbacks[k].fn)
                          ELSE callbacks,
                        k + 1, len, Append(invoked, callbacks[k].reg))

\* emitter.on(e, callback)
On(callback) ==
  /\ Len(unsubscribers) < MaxRegistrations
  /\ LET l == Listener(Len(unsubscribers) + 1, callback, FALSE)
     IN  /\ events' = Append(events, l)
         /\ unsubscribers' = Append(unsubscribers, l.fn)
  /\ UNCHANGED << lastInvoked, coreVars, usedVars, verdictVars, smVars, errorVars, retryVars, sanitizeVars, ledgerVars, loaderVars, historyVars >>

\* emitter.once(e, callback)
Once(callback) ==
  /\ Len(unsubscribers) < MaxRegistrations
  /\ LET l == Listener(Len(unsubscribers) + 1, callback, TRUE)
     IN  /\ events' = Append(events, l)
         /\ unsubscribers' = Append(unsubscribers, l.fn)
  /\ UNCHANGED << lastInvoked, coreVars, usedVars, verdictVars, smVars, errorVars, retryVars, sanitizeVars, ledgerVars, loaderVars, historyVars >>

\* a call of the unsubscribe function that registration reg returned
Unsubscribe(reg) ==
  /\ events' = unsubscribe(events, unsubscribers[reg])
  /\ events' # events
  /\ UNCHANGED << unsubscribers, lastInvoked, coreVars, usedVars,
                  verdictVars, smVars, errorVars, retryVars, sanitizeVars, ledgerVars, loaderVars, historyVars >>

\* emitter.emit(e)
Emit ==
  /\ LET r == forEach(events, 1, Len(events), << >>)
     IN  /\ events' = r.callbacks
         /\ lastInvoked' = r.invoked
  /\ UNCHANGED << unsubscribers, coreVars, usedVars, verdictVars, smVars, errorVars, retryVars, sanitizeVars, ledgerVars, loaderVars, historyVars >>

EmitterNext ==
  \/ \E callback \in Callbacks : On(callback)
  \/ \E callback \in Callbacks : Once(callback)
  \/ \E reg \in DOMAIN unsubscribers : Unsubscribe(reg)
  \/ Emit

EmitterSpec == Init /\ [][EmitterNext]_vars

\* C27: emit(e) invokes every listener registered for e at the call exactly
\* once, in registration order
C27_EmitInvokesEveryListener ==
  [][Emit => lastInvoked' = [ i \in DOMAIN events |-> events[i].reg ]]_vars

\* the functions held by the array of listeners, in order
Functions(callbacks) == [ i \in DOMAIN callbacks |-> callbacks[i].fn ]

\* the array of listeners without the entry that registration reg pushed
WithoutRegistration(callbacks, reg) ==
  SelectSeq(callbacks, LAMBDA l : l.reg # reg)

\* C40: the unsubscribe function returned by on removes only the
\* registration that produced it and is idempotent: a call leaves the
\* listeners as they were but for the entry of its own registration, and
\* leaves them unchanged when that entry is already gone, also when the same
\* callback function has been registered more than once
C40_UnsubscribeRemovesOwnRegistration ==
  [][\A reg \in DOMAIN unsubscribers :
       Unsubscribe(reg)
         => Functions(events') = Functions(WithoutRegistration(events, reg))]_vars

(***************************************************************************)
(* ErrorHandler.handleError with its console.error override, the onError   *)
(* callback (GameEngine.handleError), the user notification and the        *)
(* 'error' listeners.                                                      *)
(***************************************************************************)
MaxReports == 2

\* what a callback does when it is called: it returns, it reports an error
\* of its own (it calls handleError, directly or through console.error), or
\* it throws; notifyUser throws where document is undefined
CallbackKinds == { "none", "returns", "reports", "throws" }

ErrorConfigs ==
  [ consoleOverride : BOOLEAN, onError : CallbackKinds,
    notification : { "none", "shown", "throws" }, listener : CallbackKinds ]

Severities == { "error", "info" }

handleErrorFinally_KeepsFlag(st) == st

\* finally { this.isHandlingError = false }
handleErrorFinally(st) == [ st EXCEPT !.isHandlingError = FALSE ]

\* the try block of handleError is left by an exception: onError throws, or
\* notifyUser does (it runs for the severities that shouldNotifyUser lets
\* through)
HandlerThrows(config, severity) ==
  \/ config.onError = "throws"
  \/ severity = "error" /\ config.notification = "throws"

\* handleError(error) on the handler st = [errors, errorEvents,
\* isHandlingError]; n is the number of the report
RECURSIVE ErrorHandler_handleError(_, _, _, _)
ErrorHandler_handleError(st, config, n, severity) ==
  IF st.isHandlingError
    THEN st
    ELSE
      LET \* console.error: with the override installed it reports to
          \* handleError, which finds isHandlingError set
          consoleError(s) ==
            IF config.consoleOverride
              THEN ErrorHandler_handleError(s, config, n, "info")
              ELSE s
          callback(kind, s) ==
            IF kind = "reports"
              THEN ErrorHandler_handleError(s, config, n, "error")
              ELSE s
          s1 == [ st EXCEPT !.isHandlingError = TRUE ]
          \* addError
          s2 == [ s1 EXCEPT !.errors = Append(@, n) ]
          \* logError: console.error for the severities fatal and error
          s3 == IF severity = "error" THEN consoleError(s2) ELSE s2
          \* config.onError(normalizedError)
          s4 == callback(config.onError, s3)
          \* emit('error'): an error thrown by a listener is caught by emit
          \* and logged with console.error
          s5 == LET e == [ s4 EXCEPT !.errorEvents = Append(@, n) ]
                IN  IF config.listener = "throws"
                      THEN consoleError(e)
                      ELSE callback(config.listener, e)
          \* catch (handlerError): console.error('Error in error handler')
          s6 == IF config.onError = "throws" THEN consoleError(s3)
                ELSE IF HandlerThrows(config, severity) THEN consoleError(s4)
                ELSE s5
      IN  handleErrorFinally(s6)

\* errorHandler.handleError(error) called from outside the handler
HandleError(severity) ==
  /\ reports < MaxReports
  /\ reports' = reports + 1
  /\ LET st == ErrorHandler_handleError(
                 [ errors |-> errors, errorEvents |-> errorEvents,
                   isHandlingError |-> isHandlingError ],
                 errorConfig, reports + 1, severity)
     IN  /\ errors' = st.errors
         /\ errorEvents' = st.errorEvents
         /\ isHandlingError' = st.isHandlingError
  /\ UNCHANGED << errorConfig, coreVars, usedVars, verdictVars, smVars,
                  emitterVars, retryVars, sanitizeVars, ledgerVars, loaderVars, historyVars >>

ErrorNext == \E severity \in Severities : HandleError(severity)

ErrorSpecInit ==
  /\ EngineInit /\ questions = << "q1", "q2", "q3" >>
  /\ TimerInit /\ LoadedInit /\ PureIdle
  /\ ExtIdleExcept("error")
  /\ errors = << >>
  /\ errorEvents = << >>
  /\ isHandlingError = FALSE
  /\ reports = 0
  /\ errorConfig \in ErrorConfigs

ErrorSpec == ErrorSpecInit /\ [][ErrorNext]_vars

MaxRetries == 3

initialDelay == 1000

backoffMultiplier == 2

RECURSIVE Pow(_, _)
Pow(base, exponent) ==
  IF exponent = 0 THEN 1 ELSE base * Pow(base, exponent - 1)

Delay_NoCap(k, maxDelay) == initialDelay * Pow(backoffMultiplier, k)

\* Math.min(initialDelay * Math.pow(backoffMultiplier, attempt), maxDelay)
Delay(k, maxDelay) ==
  LET d == initialDelay * Pow(backoffMultiplier, k)
  IN  IF d < maxDelay THEN d ELSE maxDelay

\* options: maxRetries, maxDelay (30000 by default), and shouldRetry, which
\* is null (-1) or returns attempt < retryWhileBelow
RetryOptions ==
  [ maxRetries : 0..MaxRetries, maxDelay : { 3000, 30000 },
    retryWhileBelow : -1..MaxRetries ]

\* await operation() returns: retryOperation returns its result
OperationResolves ==
  /\ retryPc = "attempt"
  /\ retryPc' = "returned"
  /\ retryResult' = attempt
  /\ UNCHANGED << attempt, waited, retryOptions, coreVars, usedVars,
                  verdictVars, smVars, emitterVars, errorVars, sanitizeVars, ledgerVars, loaderVars, historyVars >>

\* await operation() throws: the catch block rethrows when shouldRetry says
\* no, leaves the loop after the last attempt (throw lastError), and
\* otherwise starts the wait
OperationRejects ==
  /\ retryPc = "attempt"
  /\ IF \/ /\ retryOptions.retryWhileBelow >= 0
           /\ ~(attempt < retryOptions.retryWhileBelow)
        \/ attempt = retryOptions.maxRetries
       THEN /\ retryPc' = "thrown"
            /\ retryResult' = attempt
            /\ UNCHANGED waited
       ELSE /\ retryPc' = "waiting"
            /\ waited' = Append(waited, Delay(attempt, retryOptions.maxDelay))
            /\ UNCHANGED retryResult
  /\ UNCHANGED << attempt, retryOptions, coreVars, usedVars, verdictVars,
                  smVars, emitterVars, errorVars, sanitizeVars, ledgerVars, loaderVars, historyVars >>

\* the setTimeout of the wait fires: attempt++ and the next operation()
DelayElapses ==
  /\ retryPc = "waiting"
  /\ retryPc' = "attempt"
  /\ attempt' = attempt + 1
  /\ UNCHANGED << waited, retryResult, retryOptions, coreVars, usedVars,
                  verdictVars, smVars, emitterVars, errorVars, sanitizeVars, ledgerVars, loaderVars, historyVars >>

RetryNext ==
  \/ OperationResolves
  \/ OperationRejects
  \/ DelayElapses

\* retryOperation(operation, options) has called operation() for attempt 0
RetrySpecInit ==
  /\ EngineInit /\ TimerInit /\ LoadedInit /\ PureIdle
  /\ ExtIdleExcept("retry")
  /\ retryPc = "attempt"
  /\ attempt = 0
  /\ waited = << >>
  /\ retryResult = -1
  /\ retryOptions \in RetryOptions

\* the event loop fires a pending timer, and every operation() settles
RetrySpec == RetrySpecInit /\ [][RetryNext]_vars /\ WF_vars(RetryNext)

MaxPieces == 3

SpecialCharacters == { "&", "<", ">", "\"", "'" }

Pieces ==
  SpecialCharacters \cup { "script", "javascript:", "onerror=", "onload=", "x" }

Strings == UNION { [ 1..n -> Pieces ] : n \in 0..MaxPieces }

\* the replace calls of the branch without document; with a document,
\* textContent / innerHTML escape &, < and > only
Escape(piece, hasDocument) ==
  CASE piece = "&" -> "&amp;"
    [] piece = "<" -> "&lt;"
    [] piece = ">" -> "&gt;"
    [] piece = "\"" -> IF hasDocument THEN piece ELSE "&quot;"
    [] piece = "'" -> IF hasDocument THEN piece ELSE "&#x27;"
    [] OTHER -> piece

sanitizeHTML(str, hasDocument) ==
  [ i \in DOMAIN str |-> Escape(str[i], hasDocument) ]

\* sanitizeHTML(sanitizeInput)
SanitizeHTML ==
  /\ ~sanitizeCalled
  /\ sanitizeCalled' = TRUE
  /\ sanitizeOutput' = sanitizeHTML(sanitizeInput, documentDefined)
  /\ UNCHANGED << sanitizeInput, documentDefined, coreVars, usedVars,
                  verdictVars, smVars, emitterVars, errorVars, retryVars, ledgerVars, loaderVars, historyVars >>

SanitizeSpecInit ==
  /\ EngineInit /\ questions = << "q1", "q2", "q3" >>
  /\ TimerInit /\ LoadedInit /\ PureIdle
  /\ ExtIdleExcept("sanitize")
  /\ sanitizeInput \in Strings
  /\ sanitizeOutput = << >>
  /\ documentDefined \in BOOLEAN
  /\ sanitizeCalled = FALSE

SanitizeSpec == SanitizeSpecInit /\ [][SanitizeHTML]_vars

\* str.includes(pattern), both as sequences of pieces
Includes(str, pattern) ==
  \E i \in 0..(Len(str) - Len(pattern)) :
    \A j \in DOMAIN pattern : str[i + j] = pattern[j]

\* C30: the output of sanitizeHTML contains none of '<script>',
\* 'javascript:', 'onerror=' and 'onload='
C30_OutputHasNoDangerousSubstring ==
  sanitizeCalled =>
    \A pattern \in { << "<", "script", ">" >>, << "javascript:" >>,
                     << "onerror=" >>, << "onload=" >> } :
      ~Includes(sanitizeOutput, pattern)

(***************************************************************************)
(* CouncilManager on its own: the councils map across (re)loads, the       *)
(* offended set, the reactions, and the council component of the verdict   *)
(* score (VerdictCalculator.calculateCouncilScore).                        *)
(***************************************************************************)
MaxLedgerCalls == 3

\* CouncilManager.loadBuiltInCouncils: the array passed to processCouncils
builtInCouncils ==
  [ i \in 1..Len(CouncilIds) |->
      [ id |-> CouncilIds[i], tolerance |-> Tolerance[CouncilIds[i]] ] ]

\* data.councils of an external councils.json: one of the built-in ids and
\* the id 'unknown-council' that question q3 names
externalCouncils ==
  << [ id |-> "scientific-community", tolerance |-> 1 ],
     [ id |-> "unknown-council", tolerance |-> 1 ] >>

\* lastReaction: null
NoReaction == [ set |-> FALSE, score |-> 0, offended |-> FALSE ]

\* CouncilManager.processCouncils: councils.clear(), then every council of
\* the data is stored with offendedCount 0 and lastReaction null; the
\* offended set and councilReactions are not touched
processCouncils(councilsData) ==
  [ id \in { councilsData[i].id : i \in DOMAIN councilsData } |->
      [ tolerance |->
          councilsData[CHOOSE i \in DOMAIN councilsData :
                         councilsData[i].id = id].tolerance,
        offendedCount |-> 0,
        lastReaction |-> NoReaction ] ]

\* CouncilManager.calculateSeverity, with the offendedCount after the update
calculateSeverity(score, count, tolerance) ==
  LET baseSeverity == IF score < 0 THEN 0 - score ELSE score
      toleranceFactor == IF count - tolerance + 1 > 0
                           THEN count - tolerance + 1 ELSE 0
      totalSeverity == baseSeverity + toleranceFactor
  IN  IF totalSeverity >= 5 THEN "severe"
      ELSE IF totalSeverity >= 3 THEN "high"
      ELSE IF totalSeverity >= 1 THEN "medium"
      ELSE "low"

\* CouncilManager.processAnswer, the forEach over the entries of
\* question.councils from entry i on: processCouncilReaction updates
\* offendedCount and writes council.lastReaction = { score, offended,
\* timestamp }; the reaction it returns, which carries the severity, goes
\* into councilReactions
RECURSIVE LedgerEntries(_, _, _, _)
LedgerEntries(q, answer, i, st) ==
  LET entries == QuestionData[q].councils IN
  IF i > Len(entries)
    THEN st
    ELSE
      LET c == entries[i].council IN
      IF c \notin DOMAIN st.councils
        THEN LedgerEntries(q, answer, i + 1, st)
        ELSE
          LET council == st.councils[c]
              score == Score(q, entries[i].map, answer)
              r == processCouncilReaction(council.offendedCount,
                                          council.tolerance,
                                          c \in st.offended, score)
              severity == calculateSeverity(score, r.count, council.tolerance)
          IN  LedgerEntries(q, answer, i + 1,
                [ councils |->
                    [ st.councils EXCEPT ![c] =
                        [ @ EXCEPT !.offendedCount = r.count,
                                   !.lastReaction =
                                     [ set |-> TRUE, score |-> score,
                                       offended |-> r.offended ] ] ],
                  offended |->
                    IF IsNewlyOffended(r.offended, c \in st.offended)
                      THEN st.offended \cup {c} ELSE st.offended,
                  severity |->
                    [ d \in (DOMAIN st.severity) \cup {c} |->
                        IF d = c THEN severity ELSE st.severity[d] ] ])

\* CouncilManager.getOffendedCouncils: councils.get(id) of every offended
\* id, undefined for an id that the map does not hold
getOffendedCouncils(cs, offended) ==
  [ id \in offended |->
      IF id \in DOMAIN cs
        THEN [ defined |-> TRUE, lastReaction |-> cs[id].lastReaction ]
        ELSE [ defined |-> FALSE, lastReaction |-> NoReaction ] ]

\* severityMultipliers, in halves (medium is 1.5)
severityMultipliers == [ low |-> 2, medium |-> 3, high |-> 4, severe |-> 6 ]

penaltyPerCouncil == -2

\* council.lastReaction?.severity || 'medium'
lastReactionSeverity(lastReaction) ==
  IF lastReaction.set /\ "severity" \in DOMAIN lastReaction
    THEN lastReaction.severity
    ELSE "medium"

RECURSIVE SumPenalties(_, _)
SumPenalties(severityOf, ids) ==
  IF ids = {}
    THEN 0
    ELSE LET id == CHOOSE x \in ids : TRUE
         IN  (penaltyPerCouncil * severityMultipliers[severityOf[id]]) \div 2
               + SumPenalties(severityOf, ids \ {id})

\* Math.max(-10, totalScore)
CapAtMinusTen(totalScore) == IF totalScore < -10 THEN -10 ELSE totalScore

\* VerdictCalculator.calculateCouncilScore(councilsOffended); reading
\* lastReaction of an undefined entry throws a TypeError
calculateCouncilScore(councilsOffended) ==
  IF \E id \in DOMAIN councilsOffended : ~councilsOffended[id].defined
    THEN [ set |-> FALSE, threw |-> TRUE, value |-> 0 ]
    ELSE [ set |-> TRUE, threw |-> FALSE,
           value |->
             CapAtMinusTen(
               SumPenalties(
                 [ id \in DOMAIN councilsOffended |->
                     lastReactionSeverity(councilsOffended[id].lastReaction) ],
                 DOMAIN councilsOffended)) ]

\* councils.processAnswer(question, answer)
LedgerProcessAnswer(q, answer) ==
  /\ ledgerCalls < MaxLedgerCalls
  /\ ledgerCalls' = ledgerCalls + 1
  /\ LET st == LedgerEntries(q, answer, 1,
                 [ councils |-> councils, offended |-> offendedSet,
                   severity |-> reactionSeverity ])
     IN  /\ councils' = st.councils
         /\ offendedSet' = st.offended
         /\ reactionSeverity' = st.severity
  /\ UNCHANGED << councilScore, coreVars, usedVars, verdictVars, smVars,
                  emitterVars, errorVars, retryVars, sanitizeVars, loaderVars, historyVars >>

\* a loadCouncils() call settles: processCouncils(data.councils) when the
\* data was fetched and holds an array, else the catch block's
\* loadBuiltInCouncils(); between the call and its settling only isLoading
\* differs
LoadCouncils(kind) ==
  /\ councils' = IF kind = "array" THEN processCouncils(externalCouncils)
                                   ELSE processCouncils(builtInCouncils)
  /\ UNCHANGED << offendedSet, reactionSeverity, councilScore, ledgerCalls,
                  coreVars, usedVars, verdictVars, smVars, emitterVars,
                  errorVars, retryVars, sanitizeVars, loaderVars, historyVars >>

\* councils.reset()
LedgerReset ==
  /\ offendedSet # {} \/ reactionSeverity # << >>
  /\ offendedSet' = {}
  /\ reactionSeverity' = << >>
  /\ councils' = [ id \in DOMAIN councils |->
                     [ councils[id] EXCEPT !.offendedCount = 0,
                                           !.lastReaction = NoReaction ] ]
  /\ UNCHANGED << councilScore, ledgerCalls, coreVars, usedVars, verdictVars,
                  smVars, emitterVars, errorVars, retryVars, sanitizeVars, loaderVars, historyVars >>

\* GameEngine.calculateVerdict: councilsOffended is
\* councils.getOffendedCouncils(), of which VerdictCalculator.calculate
\* takes the council score
CalculateCouncilScore ==
  /\ councilScore' = calculateCouncilScore(getOffendedCouncils(councils, offendedSet))
  /\ UNCHANGED << councils, offendedSet, reactionSeverity, ledgerCalls,
                  coreVars, usedVars, verdictVars, smVars, emitterVars,
                  errorVars, retryVars, sanitizeVars, loaderVars, historyVars >>

LedgerNext ==
  \/ \E q \in QuestionIds, answer \in Answers : LedgerProcessAnswer(q, answer)
  \/ \E kind \in CouncilDataKinds : LoadCouncils(kind)
  \/ LedgerReset
  \/ CalculateCouncilScore

\* a CouncilManager just constructed: the loadCouncils() of init is pending
LedgerSpecInit ==
  /\ EngineInit /\ questions = << "q1", "q2", "q3" >>
  /\ TimerInit /\ LoadedInit /\ PureIdle
  /\ ExtIdleExcept("ledger")
  /\ councils = << >>
  /\ offendedSet = {}
  /\ reactionSeverity = << >>
  /\ councilScore = [ set |-> FALSE, threw |-> FALSE, value |-> 0 ]
  /\ ledgerCalls = 0

LedgerSpec == LedgerSpecInit /\ [][LedgerNext]_vars

\* C34: every id in the offended set is the id of a currently loaded
\* council (getOffendedCouncils holds no undefined entry), also after the
\* councils are loaded again
C34_OffendedAreLoaded ==
  offendedSet \subseteq DOMAIN councils

\* the council score the severities of the reactions give: -2 times the
\* multiplier of the severity of each offended council's last reaction,
\* floored at -10
SeverityCouncilScore ==
  CapAtMinusTen(SumPenalties(reactionSeverity, offendedSet))

\* C35: the council component of the score is the sum over the offended
\* councils of -2 times the multiplier of the severity of the council's last
\* reaction, floored at -10, and lies within [-10, 0]
C35_CouncilScoreBySeverity ==
  [][(/\ CalculateCouncilScore
      /\ \A id \in offendedSet :
           id \in DOMAIN councils /\ councils[id].lastReaction.set)
       => /\ councilScore'.set
          /\ councilScore'.value = SeverityCouncilScore
          /\ councilScore'.value \in -10..0]_vars

(***************************************************************************)
(* ModuleLoader: loadModule with its in-flight loads, the retry loop of    *)
(* doLoadModule, and the preload queue.  A step ends at every await whose  *)
(* promise settles later (the import, the retry delay, the 50 ms pause);   *)
(* the code that awaits a promise goes on in the step that settles it.     *)
(* loadedModules, which nothing reads back, is left out.                   *)
(***************************************************************************)
MaxLoadCalls == 3

MaxPreloads == 1

MaxLoadRetries == 2

retryDelay == 1000

\* preloadCriticalModules: the paths it queues
criticalModules ==
  << "modules/event-emitter.js", "modules/error-handler.js",
     "modules/performance-monitor.js", "templates/html-templates.js" >>

\* the paths clients pass to loadModule and preloadModule: the last
\* critical module and a module that is not preloaded on its own
ClientPaths == { "templates/html-templates.js", "modules/dom-manager.js" }

LoaderPaths == { criticalModules[i] : i \in DOMAIN criticalModules } \cup ClientPaths

NoneSettled == [ path |-> "none", outcome |-> "none", attempt |-> 0, sharers |-> 0 ]

\* The loader part of the state, as a record
Loader ==
  [ moduleCache |-> moduleCache, loadingPromises |-> loadingPromises,
    loads |-> loads, lastSettled |-> lastSettled,
    preloadQueue |-> preloadQueue, isPreloading |-> isPreloading,
    preloadLoops |-> preloadLoops ]

SetLoader(st) ==
  /\ moduleCache' = st.moduleCache
  /\ loadingPromises' = st.loadingPromises
  /\ loads' = st.loads
  /\ lastSettled' = st.lastSettled
  /\ preloadQueue' = st.preloadQueue
  /\ isPreloading' = st.isPreloading
  /\ preloadLoops' = st.preloadLoops

\* the in-flight loads of a path
LoadsOf(ls, path) == { l \in ls : l.path = path }

\* a doLoadModule invocation that has started the import of its first
\* attempt; preload is the option of the loadModule call that made it,
\* sharers counts the further calls that returned its promise
NewLoad(ls, path, preload) ==
  [ path |-> path,
    id |-> CHOOSE n \in 1..(Cardinality(ls) + 1) :
             /\ \A l \in LoadsOf(ls, path) : l.id # n
             /\ \A m \in 1..(n - 1) : \E l \in LoadsOf(ls, path) : l.id = m,
    attempt |-> 1, pc |-> "importing", waited |-> << >>,
    preload |-> preload, sharers |-> 0 ]

\* how loadModule serves a call: from the cache, by the pending promise of
\* the path, or by a new doLoadModule invocation
served(st, config, path, forceReload) ==
  IF ~forceReload /\ config.enableCaching /\ path \in st.moduleCache
    THEN "cache"
    ELSE IF st.loadingPromises[path] # 0 THEN "shared" ELSE "created"

\* loadModule with a slip: the pending promise of the path is not consulted
loadModule_NoSharing(st, config, path, preload, forceReload) ==
  IF served(st, config, path, forceReload) = "cache"
    THEN st
    ELSE LET new == NewLoad(st.loads, path, preload)
         IN  [ st EXCEPT !.loads = @ \cup { new },
                         !.loadingPromises[path] = new.id ]

\* ModuleLoader.loadModule up to its await: a cache hit returns the cached
\* module; a path that is loading returns the pending promise; otherwise
\* doLoadModule is called, which runs up to the import of its first attempt,
\* and its promise is stored in loadingPromises
loadModule(st, config, path, preload, forceReload) ==
  CASE served(st, config, path, forceReload) = "cache" -> st
    [] served(st, config, path, forceReload) = "shared" ->
         [ st EXCEPT !.loads =
             { IF l.path = path /\ l.id = st.loadingPromises[path]
                 THEN [ l EXCEPT !.sharers = @ + 1 ] ELSE l : l \in @ } ]
    [] OTHER ->
         LET new == NewLoad(st.loads, path, preload)
         IN  [ st EXCEPT !.loads = @ \cup { new },
                         !.loadingPromises[path] = new.id ]

\* the promise of the doLoadModule invocation l settles: the loadModule
\* call that made it goes on after its await (the module is cached unless
\* preload; finally: the entry of the path leaves loadingPromises), every
\* call that returned the promise settles the same way, and a preload loop
\* that awaits it goes on to its 50 ms pause
LoadSettles(st, config, l, outcome) ==
  [ st EXCEPT
      !.loads = @ \ { l },
      !.moduleCache = IF outcome = "module" /\ config.enableCaching /\ ~l.preload
                        THEN @ \cup { l.path } ELSE @,
      !.loadingPromises[l.path] = 0,
      !.lastSettled = [ path |-> l.path, outcome |-> outcome,
                        attempt |-> l.attempt, sharers |-> l.sharers ],
      !.preloadLoops = [ k \in DOMAIN @ |->
                           IF @[k].pc = "loading" /\ @[k].path = l.path
                                /\ @[k].awaits = l.id
                             THEN [ @[k] EXCEPT !.pc = "pause" ]
                             ELSE @[k] ] ]

\* the catch block of doLoadModule's loop with a slip: it always waits and
\* tries again
ImportFails_NoLimit(st, config, l) ==
  [ st EXCEPT !.loads = (@ \ { l }) \cup
                { [ l EXCEPT !.pc = "delaying",
                             !.waited = Append(@, retryDelay * l.attempt) ] } ]

\* the catch block of doLoadModule's loop: below maxRetries it waits
\* retryDelay * attempt; after the last attempt the loop ends and
\* doLoadModule throws
ImportFails(st, config, l) ==
  IF l.attempt < config.maxRetries
    THEN [ st EXCEPT !.loads = (@ \ { l }) \cup
                       { [ l EXCEPT !.pc = "delaying",
                                    !.waited = Append(@, retryDelay * l.attempt) ] } ]
    ELSE LoadSettles(st, config, l, "error")

\* processPreloadQueue, one turn of its while loop: the head of the queue
\* is shifted and loadModule(path, { preload: true }) is awaited; a cached
\* module takes the loop to its pause at once
PreloadTurn(st, config, k) ==
  LET path == Head(st.preloadQueue)
      shifted == [ st EXCEPT !.preloadQueue = Tail(@) ]
      st1 == loadModule(shifted, config, path, TRUE, FALSE)
  IN  [ st1 EXCEPT !.preloadLoops[k] =
          IF served(shifted, config, path, FALSE) = "cache"
            THEN [ pc |-> "pause", path |-> path, awaits |-> 0 ]
            ELSE [ pc |-> "loading", path |-> path,
                   awaits |-> st1.loadingPromises[path] ] ]

\* a loop that has passed the guard of processPreloadQueue
NewLoop == [ pc |-> "new", path |-> "none", awaits |-> 0 ]

\* ModuleLoader.processPreloadQueue up to its first await: nothing when a
\* loop is running or the queue is empty
processPreloadQueue(st, config) ==
  IF st.isPreloading \/ st.preloadQueue = << >>
    THEN st
    ELSE PreloadTurn([ st EXCEPT !.isPreloading = TRUE,
                                 !.preloadLoops = Append(@, NewLoop) ],
                     config, Len(st.preloadLoops) + 1)

\* ModuleLoader.setupPreloading / preloadCriticalModules, called by the
\* constructor
preloadCriticalModules(st, config) ==
  IF ~config.enablePreloading
    THEN st
    ELSE processPreloadQueue([ st EXCEPT !.preloadQueue = @ \o criticalModules ],
                             config)

\* moduleLoader.loadModule(path, { forceReload }) called by a client
LoadModule(path, forceReload) ==
  /\ loadCallsMade < MaxLoadCalls
  /\ loadCallsMade' = loadCallsMade + 1
  /\ SetLoader(loadModule(Loader, loaderConfig, path, FALSE, forceReload))
  /\ UNCHANGED << preloadCalls, loaderConfig, coreVars, usedVars, verdictVars,
                  smVars, emitterVars, errorVars, retryVars, sanitizeVars,
                  ledgerVars, historyVars >>

\* the import of the current attempt of load l settles (an init function of
\* the module that throws fails the attempt like the import)
ImportSettles(l, ok) ==
  /\ l \in loads
  /\ l.pc = "importing"
  /\ SetLoader(IF ok THEN LoadSettles(Loader, loaderConfig, l, "module")
                     ELSE ImportFails(Loader, loaderConfig, l))
  /\ UNCHANGED << loadCallsMade, preloadCalls, loaderConfig, coreVars,
                  usedVars, verdictVars, smVars, emitterVars, errorVars,
                  retryVars, sanitizeVars, ledgerVars, historyVars >>

\* the delay after a failed attempt of load l is over: the next attempt
RetryDelayElapses(l) ==
  /\ l \in loads
  /\ l.pc = "delaying"
  /\ loads' = (loads \ { l }) \cup
                { [ l EXCEPT !.pc = "importing", !.attempt = @ + 1 ] }
  /\ UNCHANGED << moduleCache, loadingPromises, lastSettled, preloadQueue,
                  isPreloading, preloadLoops, loadCallsMade, preloadCalls,
                  loaderConfig, coreVars, usedVars, verdictVars, smVars,
                  emitterVars, errorVars, retryVars, sanitizeVars, ledgerVars, historyVars >>

\* moduleLoader.preloadModule(path) called by a client
PreloadModule(path) ==
  /\ preloadCalls < MaxPreloads
  /\ preloadCalls' = preloadCalls + 1
  /\ IF ~loaderConfig.enablePreloading
       THEN SetLoader(Loader)
       ELSE LET queued == IF \E j \in DOMAIN preloadQueue : preloadQueue[j] = path
                            THEN Loader
                            ELSE [ Loader EXCEPT !.preloadQueue = Append(@, path) ]
            IN  SetLoader(IF ~queued.isPreloading
                            THEN processPreloadQueue(queued, loaderConfig)
                            ELSE queued)
  /\ UNCHANGED << loadCallsMade, loaderConfig, coreVars, usedVars, verdictVars,
                  smVars, emitterVars, errorVars, retryVars, sanitizeVars,
                  ledgerVars, historyVars >>

\* the end of the loop with a slip: the queue is not looked at again
PauseElapses_EndsLoop(k) ==
  /\ k \in DOMAIN preloadLoops
  /\ preloadLoops[k].pc = "pause"
  /\ SetLoader([ Loader EXCEPT
                   !.isPreloading = FALSE,
                   !.preloadLoops =
                     [ j \in 1..(Len(@) - 1) |->
                         IF j < k THEN @[j] ELSE @[j + 1] ] ])
  /\ UNCHANGED << loadCallsMade, preloadCalls, loaderConfig, coreVars,
                  usedVars, verdictVars, smVars, emitterVars, errorVars,
                  retryVars, sanitizeVars, ledgerVars, historyVars >>

\* processPreloadQueue loop k after the pause: the next turn while the
\* queue holds a path, else isPreloading is cleared and the loop is over
PauseElapses(k) ==
  /\ k \in DOMAIN preloadLoops
  /\ preloadLoops[k].pc = "pause"
  /\ IF preloadQueue # << >>
       THEN SetLoader(PreloadTurn(Loader, loaderConfig, k))
       ELSE SetLoader([ Loader EXCEPT
                          !.isPreloading = FALSE,
                          !.preloadLoops =
                            [ j \in 1..(Len(@) - 1) |->
                                IF j < k THEN @[j] ELSE @[j + 1] ] ])
  /\ UNCHANGED << loadCallsMade, preloadCalls, loaderConfig, coreVars,
                  usedVars, verdictVars, smVars, emitterVars, errorVars,
                  retryVars, sanitizeVars, ledgerVars, historyVars >>

\* the promises and timers of loadModule that settle on their own
LoadingSettles ==
  \/ \E l \in loads, ok \in BOOLEAN : ImportSettles(l, ok)
  \/ \E l \in loads : RetryDelayElapses(l)

\* a loader whose clients load modules
LoadingNext ==
  \/ \E path \in ClientPaths, forceReload \in BOOLEAN : LoadModule(path, forceReload)
  \/ LoadingSettles

\* the promises and timers of the loader that settle on their own
LoaderSettles ==
  \/ LoadingSettles
  \/ \E k \in DOMAIN preloadLoops : PauseElapses(k)

\* a loader whose clients preload modules and load a module that is
\* preloaded as well
LoaderNext ==
  \/ LoadModule("templates/html-templates.js", FALSE)
  \/ \E path \in ClientPaths : PreloadModule(path)
  \/ LoaderSettles

\* new ModuleLoader(config): init() has run setupPreloading
LoaderConstructed(config) ==
  /\ EngineInit /\ questions = << "q1", "q2", "q3" >>
  /\ TimerInit /\ LoadedInit /\ PureIdle
  /\ ExtIdleExcept("loader")
  /\ loaderConfig = config
  /\ loadCallsMade = 0
  /\ preloadCalls = 0
  /\ LET fresh == [ moduleCache |-> {},
                    loadingPromises |-> [ path \in LoaderPaths |-> 0 ],
                    loads |-> {}, lastSettled |-> NoneSettled,
                    preloadQueue |-> << >>, isPreloading |-> FALSE,
                    preloadLoops |-> << >> ]
         st == preloadCriticalModules(fresh, config)
     IN  /\ moduleCache = st.moduleCache
         /\ loadingPromises = st.loadingPromises
         /\ loads = st.loads
         /\ lastSettled = st.lastSettled
         /\ preloadQueue = st.preloadQueue
         /\ isPreloading = st.isPreloading
         /\ preloadLoops = st.preloadLoops

\* a loader constructed with enablePreloading: false
LoadingSpecInit ==
  \E config \in [ maxRetries : 1..MaxLoadRetries, enableCaching : BOOLEAN,
                  enablePreloading : { FALSE } ] :
    LoaderConstructed(config)

\* imports settle and timers fire
LoadingSpec ==
  LoadingSpecInit /\ [][LoadingNext]_vars /\ WF_vars(LoadingSettles)

\* a loader that preloads
PreloadSpecInit ==
  \E config \in [ maxRetries : 1..MaxLoadRetries, enableCaching : BOOLEAN,
                  enablePreloading : { TRUE } ] :
    LoaderConstructed(config)

\* imports settle and timers fire
PreloadSpec ==
  PreloadSpecInit /\ [][LoaderNext]_vars /\ WF_vars(LoaderSettles)

\* the load l has settled in this step
SettledNow(l) == ~\E m \in loads' : m.path = l.path /\ m.id = l.id

\* what C36 says of every path but for the way a further call is served: at
\* most one load of a path is in flight and loadingPromises holds an entry
\* exactly for the paths that are loading; a load that settles takes its
\* path out of loadingPromises and settles all its sharers
OneLoadInFlight ==
  /\ \A path \in LoaderPaths :
       /\ Cardinality(LoadsOf(loads, path)) <= 1
       /\ loadingPromises[path] # 0 <=> LoadsOf(loads, path) # {}
  /\ [][\A l \in loads :
          SettledNow(l) =>
            /\ loadingPromises'[l.path] = 0
            /\ lastSettled'.path = l.path
            /\ lastSettled'.sharers = l.sharers]_vars

\* the loadModule call of this step returned the pending promise of load l
JoinedLoad(l) ==
  loads' = (loads \ { l }) \cup { [ l EXCEPT !.sharers = @ + 1 ] }

\* C36 as stated: every call for a path that is loading starts no import
\* and settles with the pending load
C36_FurtherCallsShareLoad ==
  /\ OneLoadInFlight
  /\ [][\A path \in ClientPaths, forceReload \in BOOLEAN :
          (LoadModule(path, forceReload) /\ LoadsOf(loads, path) # {})
            => \E l \in LoadsOf(loads, path) : JoinedLoad(l)]_vars

\* C36: concurrent loadModule calls for a path share one in-flight load: a
\* call made while the path is loading starts no import, and unless the
\* cache serves it (the pending load was forced while the path was cached)
\* it settles with the pending load; a settled load leaves no entry in
\* loadingPromises
C36_FurtherCallsShareLoadUnlessCached ==
  /\ OneLoadInFlight
  /\ [][\A path \in ClientPaths, forceReload \in BOOLEAN :
          (LoadModule(path, forceReload) /\ LoadsOf(loads, path) # {})
            => IF served(Loader, loaderConfig, path, forceReload) = "cache"
                 THEN loads' = loads
                 ELSE \E l \in LoadsOf(loads, path) : JoinedLoad(l)]_vars

\* a load that further calls had joined has settled, and its path has left
\* loadingPromises
C36_Witness ==
  /\ lastSettled.sharers >= 1
  /\ loadingPromises[lastSettled.path] = 0

\* the delays retryDelay * 1, ..., retryDelay * n
RetryDelays(n) == [ j \in 1..n |-> retryDelay * j ]

\* C37: doLoadModule terminates: at most maxRetries attempts, a wait of
\* retryDelay * attempt after every failed attempt but the last, the module
\* of the first attempt that succeeds is returned, and it throws exactly
\* when maxRetries attempts have failed
C37_LoadTerminatesWithinRetries ==
  /\ [](\A l \in loads :
          /\ l.attempt \in 1..loaderConfig.maxRetries
          /\ l.pc = "importing" => l.waited = RetryDelays(l.attempt - 1)
          /\ l.pc = "delaying" => /\ l.waited = RetryDelays(l.attempt)
                                  /\ l.attempt < loaderConfig.maxRetries)
  /\ [][\A l \in loads :
          /\ ImportSettles(l, TRUE)
               => SettledNow(l) /\ lastSettled'.outcome = "module"
                                /\ lastSettled'.attempt = l.attempt
          /\ (SettledNow(l) /\ lastSettled'.outcome = "error")
               => l.attempt = loaderConfig.maxRetries
          /\ (ImportSettles(l, FALSE) /\ l.attempt = loaderConfig.maxRetries)
               => SettledNow(l) /\ lastSettled'.outcome = "error"]_vars
  /\ (loads # {}) ~> (loads = {})

\* a load has thrown after maxRetries attempts, of which there were several
C37_Witness ==
  /\ lastSettled.outcome = "error"
  /\ lastSettled.attempt = loaderConfig.maxRetries
  /\ lastSettled.attempt > 1

\* path is in the queue q
Queued(q, path) == \E j \in DOMAIN q : q[j] = path

\* C38: every queued path is eventually dequeued and handed to loadModule
\* by the one processing loop: never two loops, a loop runs whenever the
\* queue holds a path, a path leaves the queue only as the path of the
\* loop's turn, for which the cache serves it or a load of it is in flight,
\* and the queue is eventually empty with isPreloading back to false
C38_QueuedPathsArePreloaded ==
  /\ [](/\ Len(preloadLoops) <= 1
        /\ isPreloading <=> Len(preloadLoops) = 1
        /\ preloadQueue # << >> => isPreloading)
  /\ [][\A path \in LoaderPaths :
          (Queued(preloadQueue, path) /\ ~Queued(preloadQueue', path))
            => /\ \E k \in DOMAIN preloadLoops' : preloadLoops'[k].path = path
               /\ \/ path \in moduleCache
                  \/ LoadsOf(loads', path) # {}]_vars
  /\ (preloadQueue # << >> \/ isPreloading)
       ~> (preloadQueue = << >> /\ ~isPreloading)

\* the loop is over after it has preloaded a path that a client added
\* (no client has called loadModule, so the load was the loop's)
C38_Witness ==
  /\ ~isPreloading
  /\ preloadQueue = << >>
  /\ preloadCalls > 0
  /\ loadCallsMade = 0
  /\ lastSettled.path = "modules/dom-manager.js"

(***************************************************************************)
(* StateManager: the change history.  The history is followed by its       *)
(* length alone, through the constructor, the initial load, set, reset,    *)
(* import and save.                                                        *)
(***************************************************************************)
MaxImported == 3

MaxHistoryOption == 2

defaultMaxHistory == 50

recentHistory == 10

\* the options of the constructor that bear on the history
HistoryOptions ==
  [ hasMaxHistory : { TRUE }, maxHistory : 0..MaxHistoryOption,
    enableCompression : BOOLEAN ]
    \cup [ hasMaxHistory : { FALSE }, maxHistory : { 0 },
           enableCompression : BOOLEAN ]

\* this.config: maxHistory is options.maxHistory || 50, then overwritten by
\* the spread of options when options has the property
historyConfig(options) ==
  [ maxHistory |-> IF options.hasMaxHistory THEN options.maxHistory
                                            ELSE defaultMaxHistory,
    enableCompression |-> options.enableCompression ]

\* StateManager.addToHistory: push, then one shift when the length exceeds
\* config.maxHistory
addToHistory(length, config) ==
  LET pushed == length + 1
  IN  IF pushed > config.maxHistory THEN pushed - 1 ELSE pushed

\* StateManager.compress: history.slice(-10)
compress(length) ==
  IF length > recentHistory THEN recentHistory ELSE length

\* new StateManager(options): history = [], then init() runs load() up to
\* its return and awaits the result
HistoryConstruct(options) ==
  /\ histPc \in { "none", "ready" }
  /\ histConfig' = historyConfig(options)
  /\ history' = 0
  /\ histLoaded' = histStored
  /\ histPc' = "loading"
  /\ UNCHANGED << histStored, coreVars, usedVars, verdictVars, smVars,
                  emitterVars, errorVars, retryVars, sanitizeVars,
                  ledgerVars, loaderVars >>

\* init() after the await: this.history = savedState.history || []
HistoryInitCompletes ==
  /\ histPc = "loading"
  /\ history' = IF histLoaded.has THEN histLoaded.history ELSE history
  /\ histPc' = "ready"
  /\ UNCHANGED << histLoaded, histStored, histConfig, coreVars, usedVars,
                  verdictVars, smVars, emitterVars, errorVars, retryVars,
                  sanitizeVars, ledgerVars, loaderVars >>

\* stateManager.set(key, value): addToHistory is true by default
HistorySet ==
  /\ histPc \in { "loading", "ready" }
  /\ history' = addToHistory(history, histConfig)
  /\ UNCHANGED << histPc, histLoaded, histStored, histConfig, coreVars,
                  usedVars, verdictVars, smVars, emitterVars, errorVars,
                  retryVars, sanitizeVars, ledgerVars, loaderVars >>

\* stateManager.reset(): this.history = []
HistoryReset ==
  /\ histPc \in { "loading", "ready" }
  /\ history' = 0
  /\ UNCHANGED << histPc, histLoaded, histStored, histConfig, coreVars,
                  usedVars, verdictVars, smVars, emitterVars, errorVars,
                  retryVars, sanitizeVars, ledgerVars, loaderVars >>

\* stateManager.import(jsonString) of a JSON text with a state and a history
\* of the given length: this.history = data.history || []
Import(length) ==
  /\ histPc \in { "loading", "ready" }
  /\ history' = length
  /\ UNCHANGED << histPc, histLoaded, histStored, histConfig, coreVars,
                  usedVars, verdictVars, smVars, emitterVars, errorVars,
                  retryVars, sanitizeVars, ledgerVars, loaderVars >>

\* stateManager.save(): the history is stored, its last ten entries when
\* compression is enabled
HistorySave ==
  /\ histPc \in { "loading", "ready" }
  /\ histStored' =
       [ has |-> TRUE,
         history |-> IF histConfig.enableCompression THEN compress(history)
                                                     ELSE history ]
  /\ UNCHANGED << histPc, history, histLoaded, histConfig, coreVars,
                  usedVars, verdictVars, smVars, emitterVars, errorVars,
                  retryVars, sanitizeVars, ledgerVars, loaderVars >>

HistoryNext ==
  \/ \E options \in HistoryOptions : HistoryConstruct(options)
  \/ HistoryInitCompletes
  \/ HistorySet
  \/ HistoryReset
  \/ \E length \in 0..MaxImported : Import(length)
  \/ HistorySave

\* no instance yet, nothing stored
HistorySpecInit ==
  /\ EngineInit /\ questions = << "q1", "q2", "q3" >>
  /\ TimerInit /\ LoadedInit /\ PureIdle
  /\ ExtIdleExcept("history")
  /\ histPc = "none"
  /\ history = 0
  /\ histLoaded = [ has |-> FALSE, history |-> 0 ]
  /\ histStored = [ has |-> FALSE, history |-> 0 ]
  /\ histConfig = historyConfig([ hasMaxHistory |-> FALSE, maxHistory |-> 0,
                                  enableCompression |-> TRUE ])

HistorySpec == HistorySpecInit /\ [][HistoryNext]_vars

\* C39: in every reachable state of a StateManager the change history holds
\* at most maxHistory entries, after any sequence of set, reset, import,
\* save and initial load
C39_HistoryWithinMaxHistory ==
  histPc # "none" => history <= histConfig.maxHistory

====
